---------------------------- MODULE Spec2Model ----------------------------
(***************************************************************************)
(* Signal-scoring engine of toss-stock (src/analyzer.py).                  *)
(*                                                                         *)
(* Units.  Prices are integers (cents).  Percentages keep the number of    *)
(* decimals the code rounds them to: RSI and the 52-week distances are in  *)
(* tenths, Volume_Ratio, the support/resistance distances, return_1m and   *)
(* ATR_pct are in hundredths.  The volume multiplier is in hundredths      *)
(* (1.3 = 130) and the running score in thousandths (2 * 1.3 = 2600); the  *)
(* rounded score of the result is in tenths (4.0 = 40).                    *)
(*                                                                         *)
(* Python's round() works on binary floating point numbers: a value that   *)
(* is an exact decimal tie (1.95 to one decimal) is rounded up or down     *)
(* depending on the representation error of the operands.  RoundDiv        *)
(* therefore returns both neighbours at an exact tie and the nearest       *)
(* value everywhere else.                                                  *)
(***************************************************************************)
EXTENDS Integers, Sequences, FiniteSets, TLC

VARIABLES
    df,            \* the price series handed to analyze_signals
    pc,            \* position of the analyze_signals call: "start" | "done"
    signals,       \* the record analyze_signals returned
    locals,        \* local variables of analyze_signals at its return
    all_holdings,  \* analyze_portfolio: the flattened holdings list
    hidx,          \* analyze_portfolio: index of the next holding
    results,       \* analyze_portfolio: results["holdings"]
    market_indicators,  \* analyze_portfolio: the macro snapshot fetched once
    provider,      \* what the data provider answered for each holding so far
    plan,          \* the strategy generate_trading_strategy (strategy.py) returned
    bitgak,        \* the record analyze_bitgak_signal returned
    trades,        \* trade.py: data["trades"] of the ledger file
    portfolio      \* portfolio.py: the content of the portfolio file

vars == <<df, pc, signals, locals, all_holdings, hidx, results,
          market_indicators, provider, plan, bitgak, trades, portfolio>>

sigVars == <<df, pc, signals, locals>>
pfVars == <<all_holdings, hidx, results, market_indicators, provider>>
modVars == <<plan, bitgak>>
fileVars == <<trades, portfolio>>

\* portfolio.py 18-21: load_portfolio() without a file
NoFile == [kind |-> "none"]

-----------------------------------------------------------------------------
(* Values and arithmetic *)

NaN == -999999999

MinBars == 60

notna(x) == x # NaN

\* Python comparisons: every comparison with NaN is False
GT(a, b) == notna(a) /\ notna(b) /\ a > b
GE(a, b) == notna(a) /\ notna(b) /\ a >= b
LT(a, b) == notna(a) /\ notna(b) /\ a < b
LE(a, b) == notna(a) /\ notna(b) /\ a <= b

Abs(x) == IF x < 0 THEN -x ELSE x
Max2(a, b) == IF a >= b THEN a ELSE b
Min2(a, b) == IF a <= b THEN a ELSE b

\* round(n / d) to an integer, d > 0; both neighbours at an exact tie
RoundDiv(n, d) ==
    LET q == n \div d
        r == n - q * d
    IN  IF 2 * r < d THEN {q}
        ELSE IF 2 * r > d THEN {q + 1}
        ELSE {q, q + 1}

Put(m, k, v) == [x \in (DOMAIN m) \cup {k} |-> IF x = k THEN v ELSE m[x]]

EmptyMap == [x \in {} |-> 0]

-----------------------------------------------------------------------------
(* Indicator library: the values of the computed columns at the latest bar *)

PriceCols == {"Open", "High", "Low", "Close", "Volume"}

IndicatorCols ==
    {"MA5", "MA20", "MA60", "Tenkan", "Kijun", "SpanA", "SpanB", "Chikou",
     "RSI", "EMA12", "EMA26", "MACD", "MACD_Signal", "MACD_Hist",
     "BB_Middle", "BB_Upper", "BB_Lower", "BB_Width",
     "Volume_MA20", "Volume_Ratio", "ATR", "ATR_pct"}

\* df['Volume_Ratio'] = df['Volume'] / df['Volume_MA20'], then round(.., 2)
VolumeRatio(d) ==
    IF ~notna(d.Volume_MA20) \/ ~notna(d.Volume) THEN {NaN}
    ELSE IF d.Volume_MA20 = 0 THEN {NaN}
    ELSE RoundDiv(d.Volume * 100, d.Volume_MA20)

\* rs = gain / loss; RSI = 100 - 100 / (1 + rs), then round(.., 1)
RSI(d) ==
    IF ~notna(d.gain) \/ ~notna(d.loss) THEN {NaN}
    ELSE IF d.loss = 0 THEN (IF d.gain = 0 THEN {NaN} ELSE {1000})
    ELSE RoundDiv(1000 * d.gain, d.gain + d.loss)

\* df['MACD_Hist'] = df['MACD'] - df['MACD_Signal']
MACDHist(m, s) == IF notna(m) /\ notna(s) THEN m - s ELSE NaN

\* df['ATR_pct'] = df['ATR'] / df['Close'] * 100, then round(.., 2)
ATRpct(d) ==
    IF ~notna(d.ATR) THEN {NaN} ELSE RoundDiv(d.ATR * 10000, d.Close)

\* round((latest['Close'] - high_52w) / high_52w * 100, 1)
FromHigh52w(d) == RoundDiv((d.Close - d.high_52w) * 1000, d.high_52w)
FromLow52w(d) == RoundDiv((d.Close - d.low_52w) * 1000, d.low_52w)

\* calculate_support_resistance: round((level / close - 1) * 100, 2)
DistanceToSupport(d) == RoundDiv((d.support - d.Close) * 10000, d.Close)
DistanceToResistance(d) == RoundDiv((d.resistance - d.Close) * 10000, d.Close)

\* calculate_momentum: round((current / close[-21] - 1) * 100, 2)
Return1m(d) == RoundDiv((d.Close - d.close_21) * 10000, d.close_21)

\* detect_candle_patterns on the last three bars
detect_candle_patterns(d) ==
    LET open_p == d.Open
        high == d.High
        low == d.Low
        close == d.Close
        body == Abs(close - open_p)
        upper_shadow == high - Max2(open_p, close)
        lower_shadow == Min2(open_p, close) - low
        total_range == high - low
        prev_body == Abs(d.prev_Close - d.prev_Open)
        day1_body == Abs(d.prev2_Close - d.prev2_Open)
        day2_body == prev_body
        doji == IF 10 * body < total_range THEN <<"doji">> ELSE <<>>
        hammer ==
            IF lower_shadow > body * 2 /\ 2 * upper_shadow < body
               /\ close < d.prev_Close
            THEN <<"hammer">> ELSE <<>>
        inv_hammer ==
            IF upper_shadow > body * 2 /\ 2 * lower_shadow < body
               /\ close < d.prev_Close
            THEN <<"inv_hammer">> ELSE <<>>
        hanging ==
            IF lower_shadow > body * 2 /\ 2 * upper_shadow < body
               /\ close > d.prev_Close
            THEN <<"hanging_man">> ELSE <<>>
        engulf ==
            IF 2 * body > 3 * prev_body
            THEN IF close > open_p /\ d.prev_Close < d.prev_Open
                 THEN <<"bull_engulf">>
                 ELSE IF close < open_p /\ d.prev_Close > d.prev_Open
                      THEN <<"bear_engulf">> ELSE <<>>
            ELSE <<>>
        star ==
            IF d.prev2_Close < d.prev2_Open
               /\ 10 * day2_body < 3 * day1_body
               /\ close > open_p
               /\ 2 * body > day1_body
            THEN <<"morning_star">> ELSE <<>>
    IN  IF total_range = 0 THEN <<>>
        ELSE doji \o hammer \o inv_hammer \o hanging \o engulf \o star

-----------------------------------------------------------------------------
(* Signal texts.  A text is named by an identifier; Emoji gives the markers *)
(* that occur in the text and Words the keywords that candle scoring looks  *)
(* for ("buy" = 매수, "rebound" = 반등, "sell" = 매도, "decline" = 하락).   *)

Emoji(s) ==
    CASE s \in {"ma_golden", "ichi_golden", "rsi_60", "macd_golden",
                "macd_hist_up", "bull_engulf"} -> {"chart_up"}
      [] s \in {"ma_death", "ichi_death", "rsi_40", "macd_death",
                "macd_hist_down", "bear_engulf"} -> {"chart_down"}
      [] s \in {"above_ma20", "cloud_above"} -> {"check"}
      [] s \in {"below_ma20", "cloud_below", "rsi_override_note"} -> {"warning"}
      [] s = "rsi_80" -> {"red", "warning"}
      [] s \in {"rsi_70", "bb_upper"} -> {"red"}
      [] s \in {"rsi_20", "rsi_30", "bb_lower"} -> {"green"}
      [] s \in {"vol_surge", "vol_up", "vol_down"} -> {"bar_chart"}
      [] s \in {"cloud_inside", "rsi_neutral"} -> {"minus"}
      [] s = "near_high" -> {"top"}
      [] s = "near_low" -> {"down_triangle"}
      [] s \in {"mom_overheat", "mom_strong"} -> {"rocket"}
      [] s \in {"mom_crash", "mom_down"} -> {"collision"}
      [] s = "atr_high" -> {"high_voltage"}
      [] s = "doji" -> {"eight_spoked"}
      [] s \in {"hammer", "inv_hammer"} -> {"hammer_tool"}
      [] s = "hanging_man" -> {"skull"}
      [] s = "morning_star" -> {"star"}
      [] OTHER -> {"target"}

\* keywords of the candle-pattern texts (the only texts that are searched)
Words(s) ==
    CASE s \in {"hammer", "inv_hammer", "morning_star"} -> {"rebound"}
      [] s = "hanging_man" -> {"decline"}
      [] s = "bull_engulf" -> {"buy"}
      [] s = "bear_engulf" -> {"decline", "sell"}
      [] OTHER -> {}

IsBuyTagged(s) == Emoji(s) \cap {"chart_up", "green", "check"} # {}
IsSellTagged(s) == Emoji(s) \cap {"chart_down", "red", "warning"} # {}

BuyCount(seq) == Cardinality({i \in 1..Len(seq) : IsBuyTagged(seq[i])})
SellCount(seq) == Cardinality({i \in 1..Len(seq) : IsSellTagged(seq[i])})

-----------------------------------------------------------------------------
(* analyze_signals, stage by stage.  The accumulator holds the local       *)
(* variables score, volume_multiplier, signal_flags, rsi_override and the  *)
(* fields signals["signals"] and signals["indicators"] of the result.      *)

Acc0 ==
    [score |-> 0, volume_multiplier |-> 100, signal_flags |-> {},
     sigs |-> <<>>, indicators |-> EmptyMap, rsi_override |-> "None"]

Emit(a, text, delta, flags) ==
    [a EXCEPT !.sigs = Append(@, text),
              !.score = @ + delta,
              !.signal_flags = @ \cup flags]

\* volume multiplier, analyzer.py 547-561
VolumeStage(a, vol_ratio) ==
    IF ~notna(vol_ratio) THEN a
    ELSE LET b == [a EXCEPT !.indicators = Put(@, "Volume_Ratio", vol_ratio)]
         IN  IF vol_ratio >= 200
             THEN [Emit(b, "vol_surge", 0, {"volume_surge"})
                      EXCEPT !.volume_multiplier = 130]
             ELSE IF vol_ratio >= 150
             THEN [Emit(b, "vol_up", 0, {}) EXCEPT !.volume_multiplier = 115]
             ELSE IF vol_ratio <= 50
             THEN [Emit(b, "vol_down", 0, {}) EXCEPT !.volume_multiplier = 70]
             ELSE b

\* variant: the cross is scored flat, without the volume multiplier
MACrossStage_flat(a, d) ==
    IF LE(d.prev_MA5, d.prev_MA20) /\ GT(d.MA5, d.MA20)
    THEN Emit(a, "ma_golden", 2000, {"golden_cross"})
    ELSE IF GE(d.prev_MA5, d.prev_MA20) /\ LT(d.MA5, d.MA20)
    THEN Emit(a, "ma_death", -2000, {"death_cross"})
    ELSE a

\* the golden / death cross of MA5 and MA20, analyzer.py 570-578
MACrossStage(a, d) ==
    IF LE(d.prev_MA5, d.prev_MA20) /\ GT(d.MA5, d.MA20)
    THEN Emit(a, "ma_golden", 2 * a.volume_multiplier * 10, {"golden_cross"})
    ELSE IF GE(d.prev_MA5, d.prev_MA20) /\ LT(d.MA5, d.MA20)
    THEN Emit(a, "ma_death", -(2 * a.volume_multiplier * 10), {"death_cross"})
    ELSE a

\* the latest close against MA20, analyzer.py 580-588
CloseVsMA20Stage(a, d) ==
    IF GT(d.Close, d.MA20)
    THEN Emit(a, "above_ma20", 500, {"above_ma20"})
    ELSE Emit(a, "below_ma20", -500, {"below_ma20"})

\* analyzer.py 563-588
MAStage(a, d) ==
    IF notna(d.MA5) /\ notna(d.MA20)
    THEN LET b == [a EXCEPT !.indicators =
                        IF notna(d.MA60)
                        THEN Put(Put(Put(@, "MA5", d.MA5), "MA20", d.MA20),
                                 "MA60", d.MA60)
                        ELSE Put(Put(@, "MA5", d.MA5), "MA20", d.MA20)]
         IN  CloseVsMA20Stage(MACrossStage(b, d), d)
    ELSE a

\* analyzer.py 595-601
IchimokuCrossStage(a, d) ==
    IF LE(d.prev_Tenkan, d.prev_Kijun) /\ GT(d.Tenkan, d.Kijun)
    THEN Emit(a, "ichi_golden", 15 * a.volume_multiplier, {})
    ELSE IF GE(d.prev_Tenkan, d.prev_Kijun) /\ LT(d.Tenkan, d.Kijun)
    THEN Emit(a, "ichi_death", -(15 * a.volume_multiplier), {})
    ELSE a

\* analyzer.py 603-617
CloudStage(a, d) ==
    IF notna(d.SpanA) /\ notna(d.SpanB)
    THEN LET cloud_top == Max2(d.SpanA, d.SpanB)
             cloud_bottom == Min2(d.SpanA, d.SpanB)
         IN  IF d.Close > cloud_top
             THEN Emit(a, "cloud_above", 500, {"above_cloud"})
             ELSE IF d.Close < cloud_bottom
             THEN Emit(a, "cloud_below", -500, {"below_cloud"})
             ELSE Emit(a, "cloud_inside", 0, {})
    ELSE a

\* analyzer.py 590-617
IchimokuStage(a, d) ==
    IF notna(d.Tenkan) /\ notna(d.Kijun)
    THEN LET b == [a EXCEPT !.indicators =
                        Put(Put(@, "Tenkan", d.Tenkan), "Kijun", d.Kijun)]
         IN  CloudStage(IchimokuCrossStage(b, d), d)
    ELSE a

\* variant: the <= 20 tier is missing and such a reading scores as <= 30
RSIStage_noExtremeLow(a, rsi) ==
    IF ~notna(rsi) THEN a
    ELSE LET b == [a EXCEPT !.indicators = Put(@, "RSI", rsi)]
         IN  IF rsi >= 800
             THEN [Emit(b, "rsi_80", 0, {"rsi_extreme_overbought"})
                      EXCEPT !.rsi_override = "SELL"]
             ELSE IF rsi >= 700
             THEN Emit(b, "rsi_70", -2000, {"rsi_overbought"})
             ELSE IF rsi <= 300
             THEN Emit(b, "rsi_30", 2000, {"rsi_oversold"})
             ELSE IF rsi >= 600
             THEN Emit(b, "rsi_60", 500, {})
             ELSE IF rsi <= 400
             THEN Emit(b, "rsi_40", -500, {})
             ELSE Emit(b, "rsi_neutral", 0, {})

\* analyzer.py 619-648
RSIStage(a, rsi) ==
    IF ~notna(rsi) THEN a
    ELSE LET b == [a EXCEPT !.indicators = Put(@, "RSI", rsi)]
         IN  IF rsi >= 800
             THEN [Emit(b, "rsi_80", 0, {"rsi_extreme_overbought"})
                      EXCEPT !.rsi_override = "SELL"]
             ELSE IF rsi >= 700
             THEN Emit(b, "rsi_70", -2000, {"rsi_overbought"})
             ELSE IF rsi <= 200
             THEN Emit(b, "rsi_20", 5000, {"rsi_extreme_oversold"})
             ELSE IF rsi <= 300
             THEN Emit(b, "rsi_30", 2000, {"rsi_oversold"})
             ELSE IF rsi >= 600
             THEN Emit(b, "rsi_60", 500, {})
             ELSE IF rsi <= 400
             THEN Emit(b, "rsi_40", -500, {})
             ELSE Emit(b, "rsi_neutral", 0, {})

\* analyzer.py 655-663
MACDCrossStage(a, d) ==
    IF LE(d.prev_MACD, d.prev_MACD_Signal) /\ GT(d.MACD, d.MACD_Signal)
    THEN Emit(a, "macd_golden", 15 * a.volume_multiplier, {"macd_golden"})
    ELSE IF GE(d.prev_MACD, d.prev_MACD_Signal) /\ LT(d.MACD, d.MACD_Signal)
    THEN Emit(a, "macd_death", -(15 * a.volume_multiplier), {"macd_death"})
    ELSE a

\* analyzer.py 665-676
MACDSignStage(a, d) ==
    LET b == [a EXCEPT !.signal_flags =
                  @ \cup (IF d.MACD > 0 THEN {"macd_positive"}
                                        ELSE {"macd_negative"})]
        hist == MACDHist(d.MACD, d.MACD_Signal)
        prev_hist == MACDHist(d.prev_MACD, d.prev_MACD_Signal)
    IN  IF notna(hist) /\ notna(prev_hist)
        THEN IF hist > prev_hist THEN Emit(b, "macd_hist_up", 0, {})
                                 ELSE Emit(b, "macd_hist_down", 0, {})
        ELSE b

\* analyzer.py 650-676
MACDStage(a, d) ==
    IF notna(d.MACD) /\ notna(d.MACD_Signal)
    THEN LET b == [a EXCEPT !.indicators =
                     Put(Put(@, "MACD", d.MACD), "MACD_Signal", d.MACD_Signal)]
         IN  MACDSignStage(MACDCrossStage(b, d), d)
    ELSE a

\* analyzer.py 678-690
BollingerStage(a, d) ==
    IF notna(d.BB_Upper) /\ notna(d.BB_Lower)
    THEN LET b == [a EXCEPT !.indicators =
                     Put(Put(@, "BB_Upper", d.BB_Upper), "BB_Lower", d.BB_Lower)]
         IN  IF d.Close >= d.BB_Upper
             THEN Emit(b, "bb_upper", -1000, {"bb_upper"})
             ELSE IF d.Close <= d.BB_Lower
             THEN Emit(b, "bb_lower", 1000, {"bb_lower"})
             ELSE b
    ELSE a

\* analyzer.py 692-700
Week52Stage(a, from_high_52w, from_low_52w) ==
    IF from_high_52w >= -50
    THEN Emit(a, "near_high", -1000, {"near_high"})
    ELSE IF from_low_52w <= 100
    THEN Emit(a, "near_low", 500, {"near_low"})
    ELSE a

\* analyzer.py 702-711 (sr is never empty on 60 bars or more)
SupportResistanceStage(a, dist_to_support, dist_to_resistance) ==
    [a EXCEPT !.signal_flags =
        @ \cup (IF dist_to_support >= -300 THEN {"near_support"} ELSE {})
          \cup (IF dist_to_resistance <= 300 THEN {"near_resistance"} ELSE {})]

\* analyzer.py 713-729 (return_1m exists on 21 bars or more)
MomentumStage(a, return_1m) ==
    IF return_1m > 2000 THEN Emit(a, "mom_overheat", -1000, {})
    ELSE IF return_1m > 1000 THEN Emit(a, "mom_strong", 0, {})
    ELSE IF return_1m < -1500 THEN Emit(a, "mom_crash", -2000, {})
    ELSE IF return_1m < -1000 THEN Emit(a, "mom_down", -1000, {})
    ELSE a

\* analyzer.py 731-736
ATRStage(a, atr_pct) ==
    IF ~notna(atr_pct) THEN a
    ELSE LET b == [a EXCEPT !.indicators = Put(@, "ATR_pct", atr_pct)]
         IN  IF atr_pct > 500 THEN Emit(b, "atr_high", 0, {}) ELSE b

\* score change of one candle pattern, analyzer.py 743-748
CandleDelta(pattern) ==
    IF Words(pattern) \cap {"buy", "rebound"} # {} THEN 1000
    ELSE IF Words(pattern) \cap {"sell", "decline"} # {} THEN -1000
    ELSE 0

CandleFlag(pattern) ==
    IF CandleDelta(pattern) > 0 THEN {"bullish_candle"}
    ELSE IF CandleDelta(pattern) < 0 THEN {"bearish_candle"}
    ELSE {}

\* analyzer.py 738-748
RECURSIVE CandleStage(_, _)
CandleStage(a, patterns) ==
    IF patterns = <<>> THEN a
    ELSE CandleStage(Emit(a, Head(patterns), CandleDelta(Head(patterns)),
                          CandleFlag(Head(patterns))),
                     Tail(patterns))

\* which combinations hold, analyzer.py 753-778
Bottom(f) == {"rsi_oversold", "near_support", "volume_surge"} \subseteq f
Top(f) == {"rsi_overbought", "near_resistance"} \subseteq f
Trend(f) == {"golden_cross", "above_cloud", "macd_positive"} \subseteq f
Decline(f) == {"death_cross", "below_cloud", "macd_negative"} \subseteq f

\* variant: the top combination is not subtracted
ComboBonus_noTop(f) ==
    (IF Bottom(f) THEN 2000 ELSE 0)
    + (IF Trend(f) THEN 1500 ELSE 0) + (IF Decline(f) THEN -1500 ELSE 0)

\* combo_bonus, analyzer.py 750-778
ComboBonus(f) ==
    (IF Bottom(f) THEN 2000 ELSE 0) + (IF Top(f) THEN -2000 ELSE 0)
    + (IF Trend(f) THEN 1500 ELSE 0) + (IF Decline(f) THEN -1500 ELSE 0)

ComboTexts(f) ==
    (IF Bottom(f) THEN <<"combo_bottom">> ELSE <<>>)
    \o (IF Top(f) THEN <<"combo_top">> ELSE <<>>)
    \o (IF Trend(f) THEN <<"combo_trend">> ELSE <<>>)
    \o (IF Decline(f) THEN <<"combo_decline">> ELSE <<>>)

\* combination bonuses, analyzer.py 750-780
ComboStage(a) ==
    [score |-> a.score + ComboBonus(a.signal_flags),
     combo_bonus |-> ComboBonus(a.signal_flags),
     sigs |-> a.sigs \o ComboTexts(a.signal_flags)]

\* variant: the confidence filter needs more than three tagged signals
Confidence_strict3(buy_signals, sell_signals) ==
    LET total_signals == buy_signals + sell_signals
    IN  IF total_signals > 3
        THEN IF 10 * buy_signals >= 7 * total_signals THEN "HIGH"
             ELSE IF 10 * sell_signals >= 7 * total_signals THEN "HIGH"
             ELSE IF 2 * buy_signals >= total_signals
                     \/ 2 * sell_signals >= total_signals THEN "MEDIUM"
             ELSE "LOW"
        ELSE "LOW"

\* confidence filter, analyzer.py 790-799 (ratios compared as fractions)
Confidence(buy_signals, sell_signals) ==
    LET total_signals == buy_signals + sell_signals
    IN  IF total_signals >= 3
        THEN IF 10 * buy_signals >= 7 * total_signals THEN "HIGH"
             ELSE IF 10 * sell_signals >= 7 * total_signals THEN "HIGH"
             ELSE IF 2 * buy_signals >= total_signals
                     \/ 2 * sell_signals >= total_signals THEN "MEDIUM"
             ELSE "LOW"
        ELSE "LOW"

\* buy_ratio >= num / 10, with the ratio 0 when nothing is tagged (810-811)
RatioGE(count, total_signals, num) ==
    IF total_signals > 0 THEN 10 * count >= num * total_signals ELSE 0 >= num

\* variant: the STRONG_BUY threshold is exclusive
Recommend_strict4(score, buy_signals, sell_signals) ==
    LET total_signals == buy_signals + sell_signals
    IN  IF score > 40 \/ (score >= 20 /\ RatioGE(buy_signals, total_signals, 8))
        THEN "STRONG_BUY"
        ELSE IF score >= 15 /\ RatioGE(buy_signals, total_signals, 7)
        THEN "BUY"
        ELSE IF score >= 20 THEN "BUY"
        ELSE IF score <= -40
                \/ (score <= -20 /\ RatioGE(sell_signals, total_signals, 8))
        THEN "STRONG_SELL"
        ELSE IF score <= -15 /\ RatioGE(sell_signals, total_signals, 7)
        THEN "SELL"
        ELSE IF score <= -20 THEN "SELL"
        ELSE "HOLD"

\* variant: the results of the first two branches are exchanged
Recommend_swapped(score, buy_signals, sell_signals) ==
    LET total_signals == buy_signals + sell_signals
    IN  IF score >= 40 \/ (score >= 20 /\ RatioGE(buy_signals, total_signals, 8))
        THEN "BUY"
        ELSE IF score >= 15 /\ RatioGE(buy_signals, total_signals, 7)
        THEN "STRONG_BUY"
        ELSE IF score >= 20 THEN "BUY"
        ELSE IF score <= -40
                \/ (score <= -20 /\ RatioGE(sell_signals, total_signals, 8))
        THEN "STRONG_SELL"
        ELSE IF score <= -15 /\ RatioGE(sell_signals, total_signals, 7)
        THEN "SELL"
        ELSE IF score <= -20 THEN "SELL"
        ELSE "HOLD"

\* score to recommendation, analyzer.py 813-828; score in tenths
Recommend(score, buy_signals, sell_signals) ==
    LET total_signals == buy_signals + sell_signals
    IN  IF score >= 40 \/ (score >= 20 /\ RatioGE(buy_signals, total_signals, 8))
        THEN "STRONG_BUY"
        ELSE IF score >= 15 /\ RatioGE(buy_signals, total_signals, 7)
        THEN "BUY"
        ELSE IF score >= 20 THEN "BUY"
        ELSE IF score <= -40
                \/ (score <= -20 /\ RatioGE(sell_signals, total_signals, 8))
        THEN "STRONG_SELL"
        ELSE IF score <= -15 /\ RatioGE(sell_signals, total_signals, 7)
        THEN "SELL"
        ELSE IF score <= -20 THEN "SELL"
        ELSE "HOLD"

\* variant: the override is not consulted
FinalRecommendation_noOverride(rsi_override, score, buy_signals, sell_signals) ==
    Recommend(score, buy_signals, sell_signals)

\* final decision, analyzer.py 804-828
FinalRecommendation(rsi_override, score, buy_signals, sell_signals) ==
    IF rsi_override = "SELL" THEN "SELL"
    ELSE Recommend(score, buy_signals, sell_signals)

\* the rounded inputs of one call: each is the set round() may return
Rounded(d) ==
    [vol_ratio : VolumeRatio(d), rsi : RSI(d), atr_pct : ATRpct(d),
     from_high_52w : FromHigh52w(d), from_low_52w : FromLow52w(d),
     distance_to_support : DistanceToSupport(d),
     distance_to_resistance : DistanceToResistance(d),
     return_1m : Return1m(d)]

\* sections 1 to 10 of analyze_signals, analyzer.py 543-748
Stages(d, r) ==
    LET a1 == VolumeStage(Acc0, r.vol_ratio)
        a2 == MAStage(a1, d)
        a3 == IchimokuStage(a2, d)
        a4 == RSIStage(a3, r.rsi)
        a5 == MACDStage(a4, d)
        a6 == BollingerStage(a5, d)
        a7 == Week52Stage(a6, r.from_high_52w, r.from_low_52w)
        a8 == SupportResistanceStage(a7, r.distance_to_support,
                                     r.distance_to_resistance)
        a9 == MomentumStage(a8, r.return_1m)
        a10 == ATRStage(a9, r.atr_pct)
        a11 == CandleStage(a10, detect_candle_patterns(d))
    IN  [vol |-> a1, ma |-> a2, ichimoku |-> a3, rsi |-> a4, macd |-> a5,
         bollinger |-> a6, week52 |-> a7, sr |-> a8, momentum |-> a9,
         atr |-> a10, candle |-> a11]

\* the early return of analyze_signals, analyzer.py 510-511
InsufficientData(symbol) == [symbol |-> symbol, error |-> "insufficient_data"]

\* variant: one bar fewer is accepted
TooShort_off1(d) == d.is_none \/ d.len < MinBars - 1

TooShort(d) == d.is_none \/ d.len < MinBars

\* analyze_signals from the combination bonuses to the return, 750-833;
\* rscore is round(score, 1)
Finish(d, symbol, underlying, r, st, rscore) ==
    LET a == st.candle
        c == ComboStage(a)
        buy_signals == BuyCount(c.sigs)
        sell_signals == SellCount(c.sigs)
        override == a.rsi_override = "SELL"
    IN  [symbol |-> symbol,
         underlying |-> underlying,
         current_price |-> d.Close,
         from_high_52w |-> r.from_high_52w,
         from_low_52w |-> r.from_low_52w,
         indicators |-> a.indicators,
         signals |-> IF override THEN Append(c.sigs, "rsi_override_note")
                                 ELSE c.sigs,
         recommendation |->
             FinalRecommendation(a.rsi_override, rscore, buy_signals,
                                 sell_signals),
         support_resistance |->
             [resistance |-> d.resistance, support |-> d.support,
              distance_to_resistance |-> r.distance_to_resistance,
              distance_to_support |-> r.distance_to_support],
         momentum |-> [return_1m |-> r.return_1m],
         candle_patterns |-> detect_candle_patterns(d),
         buy_signals |-> buy_signals,
         sell_signals |-> sell_signals,
         confidence |-> Confidence(buy_signals, sell_signals),
         score |-> rscore,
         combo_bonus |-> c.combo_bonus]

\* the results analyze_signals may return on d
AnalyzeSignals(d, symbol, underlying) ==
    IF TooShort(d) THEN {InsufficientData(symbol)}
    ELSE UNION {
           LET st == Stages(d, r)
           IN  {Finish(d, symbol, underlying, r, st, rscore) :
                   rscore \in RoundDiv(ComboStage(st.candle).score, 100)}
           : r \in Rounded(d)}

-----------------------------------------------------------------------------
(* Price series.  A series is described by its length and by the values    *)
(* the indicator library computes from it at the latest and previous bar.  *)

Base ==
    [is_none |-> FALSE, len |-> 100, cols |-> PriceCols,
     Open |-> 10000, High |-> 10000, Low |-> 10000, Close |-> 10000,
     prev_Open |-> 10000, prev_Close |-> 10000,
     prev2_Open |-> 10000, prev2_Close |-> 10000,
     Volume |-> 1000, Volume_MA20 |-> 1000,
     MA5 |-> 10010, MA20 |-> 9990, MA60 |-> 9950,
     prev_MA5 |-> 10010, prev_MA20 |-> 9990,
     Tenkan |-> 10010, Kijun |-> 9990,
     prev_Tenkan |-> 10010, prev_Kijun |-> 9990,
     SpanA |-> 9000, SpanB |-> 11000,
     gain |-> 1000, loss |-> 1000,
     MACD |-> 20, MACD_Signal |-> 12, prev_MACD |-> 15, prev_MACD_Signal |-> 12,
     BB_Upper |-> 11000, BB_Lower |-> 9000,
     high_52w |-> 12000, low_52w |-> 8000,
     resistance |-> 10500, support |-> 9500,
     close_21 |-> 10000, ATR |-> 200]

NoneDF == [Base EXCEPT !.is_none = TRUE, !.len = 0]

\* a flat last bar at price c (no candle pattern)
Flat(c) == [Close |-> c, Open |-> c, High |-> c, Low |-> c]

VolCore == {[Volume |-> v] : v \in {500, 1000, 2000}}
VolFull ==
    {[Volume |-> v] : v \in {500, 505, 510, 1000, 1490, 1495, 1500,
                             1990, 1995, 2000, 2500}}
    \cup {[Volume |-> 0, Volume_MA20 |-> 0], [Volume_MA20 |-> NaN]}

MACore ==
    {[prev_MA5 |-> 9980, MA5 |-> 10010], [prev_MA5 |-> 10010, MA5 |-> 9980],
     [prev_MA5 |-> 10010, MA5 |-> 10010]}
MAFull ==
    [prev_MA5 : {9980, 9990, 10010}, MA5 : {9980, 9990, 10010}]
    \cup {[MA20 |-> NaN], [MA5 |-> NaN], [MA60 |-> NaN]}

CloseCore == {Flat(9980), Flat(10000)}
CloseFull == {Flat(9980), Flat(9990), Flat(10000)}

IchiCore ==
    {[prev_Tenkan |-> 9980, Tenkan |-> 10010],
     [prev_Tenkan |-> 10010, Tenkan |-> 9980],
     [prev_Tenkan |-> 10010, Tenkan |-> 10010]}

\* SpanB needs 78 bars: it is missing on a series of 60
CloudNone == [len |-> 60, SpanB |-> NaN, MA60 |-> 9950]
CloudCore ==
    {CloudNone, [SpanA |-> 9000, SpanB |-> 9100],
     [SpanA |-> 11100, SpanB |-> 11000]}
CloudFull ==
    CloudCore \cup {[SpanA |-> 9000, SpanB |-> 11000],
                    [SpanA |-> 9000, SpanB |-> 10000],
                    [SpanA |-> 10000, SpanB |-> 11000]}

\* gain + loss = 2000: RSI = gain / 20
RSIOf(g) == [gain |-> g, loss |-> 2000 - g]
RSICore == {RSIOf(g) : g \in {400, 600, 1000, 1200, 1400, 1600, 1700}}
RSIFull ==
    {RSIOf(g) : g \in {300, 400, 401, 402, 600, 602, 800, 802, 1000, 1198,
                       1200, 1398, 1400, 1598, 1599, 1600, 1700}}
    \cup {[gain |-> 0, loss |-> 0], [gain |-> 5, loss |-> 0]}

MACDOf(pm, ps, m, sg) ==
    [prev_MACD |-> pm, prev_MACD_Signal |-> ps, MACD |-> m, MACD_Signal |-> sg]
MACDCore ==
    {MACDOf(10, 12, 15, 12), MACDOf(-10, -12, -15, -12),
     MACDOf(15, 12, 20, 12), MACDOf(20, 12, 15, 12)}

BBCore ==
    {[BB_Upper |-> 9990, BB_Lower |-> 9000],
     [BB_Upper |-> 11000, BB_Lower |-> 9990]}
BBFull == BBCore \cup {[BB_Upper |-> 11000, BB_Lower |-> 9000]}

SRFull == [support : {9500, 9699, 9700}, resistance : {10300, 10301, 10500}]

MomCore == {[close_21 |-> c] : c \in {10000, 12000}}
\* the inputs on which the score, the counts and the recommendation vary
ScoreInputs ==
    {v @@ m @@ c @@ i @@ k @@ r @@ x @@ b @@ o @@ Base :
        v \in VolCore, m \in MACore, c \in CloseCore, i \in IchiCore,
        k \in CloudCore, r \in RSICore, x \in MACDCore, b \in BBCore,
        o \in MomCore}

\* series the aggregator refuses
ShortInputs ==
    {NoneDF} \cup {[d EXCEPT !.len = n, !.SpanB = NaN] :
                      n \in {0, 1, MinBars - 1},
                      d \in {m @@ r @@ Base : m \in MACore, r \in RSICore}}

\* the inputs on which the RSI reading varies through every tier
RSIInputs ==
    {v @@ m @@ c @@ k @@ r @@ x @@ o @@ Base :
        v \in {[Volume |-> 1000], [Volume |-> 2000]}, m \in MACore,
        c \in CloseCore,
        k \in {CloudNone, [SpanA |-> 11100, SpanB |-> 11000]},
        r \in RSIFull,
        x \in {MACDOf(10, 12, 15, 12), MACDOf(-10, -12, -15, -12)},
        o \in MomCore}

\* a bullish last bar with a hammer shape, closing below the previous close
HammerBar ==
    [Open |-> 9990, Close |-> 10000, High |-> 10000, Low |-> 9960,
     prev_Open |-> 10020, prev_Close |-> 10010]

\* the inputs on which the volume ratio and the three crossovers vary
VolumeInputs ==
    {v @@ m @@ i @@ x @@ r @@ b @@ w @@ c @@ Base :
        v \in VolFull,
        m \in MACore, i \in IchiCore,
        x \in {MACDOf(10, 12, 15, 12), MACDOf(-10, -12, -15, -12),
               MACDOf(15, 12, 20, 12)},
        r \in {RSIOf(600), RSIOf(1000), RSIOf(1400)},
        b \in BBFull,
        w \in {[high_52w |-> 10500], [close_21 |-> 12000], [ATR |-> 600]},
        c \in {Flat(10000), HammerBar}}

\* the inputs on which the flags of the combination bonuses vary
ComboInputs ==
    {v @@ r @@ sr @@ m @@ k @@ x @@ c @@ Base :
        v \in {[Volume |-> 1000], [Volume |-> 2000]},
        r \in {RSIOf(600), RSIOf(1000), RSIOf(1400)},
        sr \in SRFull, m \in MACore, k \in CloudFull,
        x \in {MACDOf(15, 12, 20, 12), MACDOf(-20, -12, -15, -12),
               MACDOf(0, 0, 0, 0)},
        c \in CloseCore}

\* the inputs on which MA5, MA20 and the close vary
MAInputs ==
    {m @@ c @@ v @@ r @@ x @@ i @@ Base :
        m \in MAFull, c \in CloseFull, v \in VolCore,
        r \in {RSIOf(600), RSIOf(1000), RSIOf(1400)},
        x \in MACDCore, i \in IchiCore}

\* the last three bars: shapes of the last bar, directions of the two before
LastBars ==
    {[Close |-> 10000, Open |-> o, High |-> Max2(o, 10000) + u,
      Low |-> Min2(o, 10000) - l] :
        o \in {9900, 9990, 10000, 10010, 10100},
        u \in {0, 4, 30}, l \in {0, 4, 30}}
PrevBars ==
    {[prev_Open |-> 10050, prev_Close |-> 10010],
     [prev_Open |-> 9950, prev_Close |-> 9990],
     [prev_Open |-> 10010, prev_Close |-> 10010]}
Prev2Bars ==
    {[prev2_Open |-> 10250, prev2_Close |-> 10100],
     [prev2_Open |-> 10000, prev2_Close |-> 10050]}

\* the inputs on which the candle patterns vary
CandleInputs ==
    {b @@ p @@ q @@ r @@ v @@ Base :
        b \in LastBars, p \in PrevBars, q \in Prev2Bars,
        r \in {RSIOf(600), RSIOf(1000), RSIOf(1400)}, v \in VolCore}

-----------------------------------------------------------------------------
(* One call of analyze_signals(df, symbol, underlying)                     *)

Symbol == "AAPL"

NoStrategy == [action |-> "None"]
NoBitgak == [grade |-> "None"]

NoResult == [symbol |-> "None"]
NoLocals == [called |-> FALSE]

\* variant: the warm-up rows are dropped from the caller's frame as well
WithIndicators_dropna(d) ==
    [d EXCEPT !.cols = @ \cup IndicatorCols, !.len = Max2(0, @ - 77)]

\* calculate_ma .. calculate_atr write their columns into the caller's frame
WithIndicators(d) == [d EXCEPT !.cols = @ \cup IndicatorCols]

Analyze ==
    /\ pc = "start"
    /\ pc' = "done"
    /\ IF TooShort(df)
       THEN /\ signals' = InsufficientData(Symbol)
            /\ locals' = NoLocals
            /\ df' = df
       ELSE \E r \in Rounded(df) :
              LET st == Stages(df, r)
                  c == ComboStage(st.candle)
              IN  \E rscore \in RoundDiv(c.score, 100) :
                    /\ signals' = Finish(df, Symbol, "None", r, st, rscore)
                    /\ locals' = [called |-> TRUE, d |-> df, r |-> r,
                                  st |-> st, score |-> c.score,
                                  volume_multiplier |-> st.candle.volume_multiplier,
                                  signal_flags |-> st.candle.signal_flags,
                                  rsi_override |-> st.candle.rsi_override]
                    /\ df' = WithIndicators(df)
    /\ UNCHANGED pfVars
    /\ UNCHANGED modVars
    /\ UNCHANGED fileVars

\* the values round() returns for field f over the frame d
RoundedField(d, f) == {x[f] : x \in Rounded(d)}

\* round() is a function: on the operand it had in the first call it
\* returns what it returned then
SameArithmetic(r, rscore, score) ==
    locals.called =>
      /\ \A f \in DOMAIN r :
            RoundedField(df, f) = RoundedField(locals.d, f) =>
                r[f] = locals.r[f]
      /\ (score = locals.score => rscore = signals.score)

\* a second call of analyze_signals on the frame the first call was given
AnalyzeAgain ==
    /\ pc = "done"
    /\ pc' = "again"
    /\ IF TooShort(df)
       THEN /\ signals' = InsufficientData(Symbol)
            /\ df' = df
       ELSE \E r \in Rounded(df) :
              LET st == Stages(df, r)
                  c == ComboStage(st.candle)
              IN  \E rscore \in RoundDiv(c.score, 100) :
                    /\ SameArithmetic(r, rscore, c.score)
                    /\ signals' = Finish(df, Symbol, "None", r, st, rscore)
                    /\ df' = WithIndicators(df)
    /\ locals' = [first |-> signals] @@ locals
    /\ UNCHANGED pfVars
    /\ UNCHANGED modVars
    /\ UNCHANGED fileVars

InitCall(inputs) ==
    /\ df \in inputs
    /\ pc = "start"
    /\ signals = NoResult
    /\ locals = NoLocals
    /\ all_holdings = <<>>
    /\ hidx = 1
    /\ results = <<>>
    /\ market_indicators = EmptyMap
    /\ provider = <<>>
    /\ plan = NoStrategy
    /\ bitgak = NoBitgak
    /\ trades = <<>>
    /\ portfolio = NoFile

NextCall == Analyze

InitScore == InitCall(ScoreInputs \cup ShortInputs)
SpecScore == InitScore /\ [][NextCall]_vars

InitRSI == InitCall(RSIInputs)
SpecRSI == InitRSI /\ [][NextCall]_vars

InitVolume == InitCall(VolumeInputs)
SpecVolume == InitVolume /\ [][NextCall]_vars

InitCombo == InitCall(ComboInputs)
SpecCombo == InitCombo /\ [][NextCall]_vars

InitMA == InitCall(MAInputs)
SpecMA == InitMA /\ [][NextCall]_vars

InitCandle == InitCall(CandleInputs)
SpecCandle == InitCandle /\ [][NextCall]_vars

\* the inputs of the repeated call: volume ratios and scores at rounding ties
TwiceInputs ==
    {v @@ m @@ i @@ x @@ c @@ Base :
        v \in VolFull, m \in MACore, i \in IchiCore,
        x \in {MACDOf(10, 12, 15, 12), MACDOf(-10, -12, -15, -12)},
        c \in {Flat(10000), HammerBar}}

NextTwice == Analyze \/ AnalyzeAgain

InitTwice == InitCall(TwiceInputs \cup ShortInputs)
SpecTwice == InitTwice /\ [][NextTwice]_vars

Returned == pc = "done" /\ locals.called

-----------------------------------------------------------------------------
(* generate_trading_strategy as analyze_portfolio calls it (analyzer.py)   *)

\* dict.get(key, default)
Get(m, k, default) == IF k \in DOMAIN m THEN m[k] ELSE default

NoStopLoss == [present |-> FALSE]

\* analyzer.py 302-311
DefaultStrategy ==
    [action |-> "HOLD", confidence |-> "MEDIUM", entry_strategy |-> <<>>,
     exit_strategy |-> <<>>, stop_loss |-> NoStopLoss, take_profit |-> <<>>,
     position_size |-> "0%", reasoning |-> <<>>]

\* an entry or exit tranche: share of the position and offset from the price
Tranche(share, offset) == [share |-> share, offset |-> offset]

\* variant: the stop is put 3% above the support
StopLosses_above(support, current_price) ==
    {[present |-> TRUE, price |-> p, percentage |-> q] :
        p \in RoundDiv(support * 103, 100),
        q \in RoundDiv(1030 * support - 1000 * current_price, current_price)}

\* analyzer.py 362-366: 0.97 x support as price and as % of the price
StopLosses(support, current_price) ==
    {[present |-> TRUE, price |-> p, percentage |-> q] :
        p \in RoundDiv(support * 97, 100),
        q \in RoundDiv(970 * support - 1000 * current_price, current_price)}

\* upside = ((target_price / current_price) - 1) * 100; upside > 10.  The
\* float quotient of a target exactly 10% above the price falls on either
\* side of 1.1 (110.0 / 100.0 gives upside 10.000000000000009)
UpsideAbove10(current_price, target_price) ==
    IF 10 * target_price > 11 * current_price THEN {TRUE}
    ELSE IF 10 * target_price < 11 * current_price THEN {FALSE}
    ELSE {TRUE, FALSE}

\* analyzer.py 369-379, the branch taken when upside > 10 evaluates to above
TakeProfitsIf(above, current_price, target_price, resistance) ==
    IF target_price # 0 /\ above
    THEN {<<[price |-> p1, percentage |-> 100, sell_ratio |-> 30],
            [price |-> p2, percentage |-> 200, sell_ratio |-> 30],
            [price |-> target_price, percentage |-> u, sell_ratio |-> 40]>> :
            p1 \in RoundDiv(current_price * 110, 100),
            p2 \in RoundDiv(current_price * 120, 100),
            u \in RoundDiv((target_price - current_price) * 1000, current_price)}
    ELSE {<<[price |-> resistance, percentage |-> q1, sell_ratio |-> 50],
            [price |-> p2, percentage |-> q2, sell_ratio |-> 50]>> :
            q1 \in RoundDiv((resistance - current_price) * 1000, current_price),
            p2 \in RoundDiv(resistance * 105, 100),
            q2 \in RoundDiv(1050 * resistance - 1000 * current_price,
                            current_price)}

\* analyzer.py 369-379
TakeProfits(current_price, target_price, resistance) ==
    UNION {TakeProfitsIf(above, current_price, target_price, resistance) :
              above \in UpsideAbove10(current_price, target_price)}

\* analyzer.py 338-413: the plan before the market overlay
PlanFor(recommendation, score, current_price, sr, target_price, return_1m) ==
    IF recommendation \in {"STRONG_BUY", "BUY"}
    THEN {[action |-> "BUY",
           confidence |-> IF score >= 50 THEN "HIGH" ELSE "MEDIUM",
           position_size |-> IF score >= 50 THEN "30%" ELSE "20%",
           entry_strategy |->
               IF score >= 50
               THEN <<Tranche(50, 0), Tranche(30, -3), Tranche(20, -5)>>
               ELSE <<Tranche(40, 0), Tranche(30, -5), Tranche(30, -10)>>,
           exit_strategy |-> <<>>,
           stop_loss |-> sl,
           take_profit |-> tp,
           reasoning |-> IF score >= 50 THEN <<"strong_buy_signal">>
                                        ELSE <<"buy_signal">>] :
             sl \in StopLosses(sr.support, current_price),
             tp \in TakeProfits(current_price, target_price, sr.resistance)}
    ELSE IF recommendation \in {"STRONG_SELL", "SELL"}
    THEN {[action |-> "SELL",
           confidence |-> IF score <= -50 THEN "HIGH" ELSE "MEDIUM",
           position_size |-> "0%",
           entry_strategy |-> <<>>,
           exit_strategy |-> <<Tranche(50, 0), Tranche(50, 3)>>,
           stop_loss |-> NoStopLoss,
           take_profit |-> <<>>,
           reasoning |-> IF return_1m < -1500
                         THEN <<"sell_signal", "plunge">>
                         ELSE <<"sell_signal">>]}
    ELSE {[action |-> "HOLD",
           confidence |-> "MEDIUM",
           position_size |-> "keep_current",
           entry_strategy |-> <<"support_holds", "rsi_below_30">>,
           exit_strategy |-> <<"resistance_fails", "rsi_above_70">>,
           stop_loss |-> NoStopLoss,
           take_profit |-> <<>>,
           reasoning |-> <<"no_direction">>]}

\* variant: extreme fear adds its note but leaves the confidence alone
MarketOverlay_noFear(strategy, market_sentiment) ==
    IF market_sentiment = "EXTREME_FEAR" /\ strategy.action = "BUY"
    THEN [strategy EXCEPT !.reasoning = Append(@, "extreme_fear")]
    ELSE IF market_sentiment = "EXTREME_GREED" /\ strategy.action = "BUY"
    THEN [strategy EXCEPT !.reasoning = Append(@, "extreme_greed"),
                          !.confidence = "LOW",
                          !.position_size = "10%"]
    ELSE strategy

\* analyzer.py 415-422
MarketOverlay(strategy, market_sentiment) ==
    IF market_sentiment = "EXTREME_FEAR" /\ strategy.action = "BUY"
    THEN [strategy EXCEPT !.reasoning = Append(@, "extreme_fear"),
                          !.confidence = "HIGH"]
    ELSE IF market_sentiment = "EXTREME_GREED" /\ strategy.action = "BUY"
    THEN [strategy EXCEPT !.reasoning = Append(@, "extreme_greed"),
                          !.confidence = "LOW",
                          !.position_size = "10%"]
    ELSE strategy

\* analyzer.py 300-424; the set of strategies round() may produce
generate_trading_strategy(analysis, mi) ==
    LET current_price == Get(analysis, "current_price", 0)
        recommendation == Get(analysis, "recommendation", "HOLD")
        fundamentals == Get(analysis, "fundamentals", EmptyMap)
        sr == Get(analysis, "support_resistance", EmptyMap)
        momentum == Get(analysis, "momentum", EmptyMap)
        score == Get(analysis, "score", 0)
        target_price == Get(fundamentals, "target_price", 0)
        support == Get(sr, "support", (current_price * 9) \div 10)
        resistance == Get(sr, "resistance", (current_price * 11) \div 10)
        market_sentiment == Get(mi, "market_sentiment", "NEUTRAL")
    IN  IF current_price = 0 THEN {DefaultStrategy}
        ELSE {MarketOverlay(p, market_sentiment) :
                 p \in PlanFor(recommendation, score, current_price,
                               [support |-> support, resistance |-> resistance],
                               target_price, Get(momentum, "return_1m", 0))}

-----------------------------------------------------------------------------
(* analyze_portfolio: one holding after the other                          *)

\* str.upper() on the symbols of the model
Upper(symbol) ==
    CASE symbol = "tqqq" -> "TQQQ"
      [] symbol = "Tqqq" -> "TQQQ"
      [] symbol = "aapl" -> "AAPL"
      [] symbol = "qqq" -> "QQQ"
      [] symbol = "soxl" -> "SOXL"
      [] symbol = "bitx" -> "BITX"
      [] symbol = "googl2" -> "GOOGL2"
      [] symbol = "btc-usd" -> "BTC-USD"
      [] symbol = "msft" -> "MSFT"
      [] OTHER -> symbol

\* analyzer.py 23-56
LEVERAGE_MAP ==
    [SOXL |-> "SOXX", SOXS |-> "SOXX", TQQQ |-> "QQQ", SQQQ |-> "QQQ",
     UPRO |-> "SPY", SPXU |-> "SPY", LABU |-> "XBI", LABD |-> "XBI",
     FAS |-> "XLF", FAZ |-> "XLF", TECL |-> "XLK", TECS |-> "XLK",
     MSTX |-> "MSTR", MSTZ |-> "MSTR", NVDL |-> "NVDA", NVDD |-> "NVDA",
     TSLL |-> "TSLA", TSLS |-> "TSLA", AAPU |-> "AAPL", AAPD |-> "AAPL",
     GOOGL2 |-> "GOOGL", AMZN2 |-> "AMZN", CONL |-> "COIN", CONY |-> "COIN",
     BITX |-> "BTC-USD", BITU |-> "BTC-USD", ETHU |-> "ETH-USD"]

\* variant: the table is consulted with the symbol as written
get_underlying_exact(symbol) == Get(LEVERAGE_MAP, symbol, symbol)

\* analyzer.py 58-60
get_underlying(symbol) == Get(LEVERAGE_MAP, Upper(symbol), symbol)

\* yahoo_client.py 12-45
yahoo_LEVERAGE_MAP ==
    [SOXL |-> "SOXX", SOXS |-> "SOXX", TQQQ |-> "QQQ", SQQQ |-> "QQQ",
     UPRO |-> "SPY", SPXU |-> "SPY", LABU |-> "XBI", LABD |-> "XBI",
     FAS |-> "XLF", FAZ |-> "XLF", TECL |-> "XLK", TECS |-> "XLK",
     MSTX |-> "MSTR", MSTZ |-> "MSTR", NVDL |-> "NVDA", NVDD |-> "NVDA",
     TSLL |-> "TSLA", TSLS |-> "TSLA", AAPU |-> "AAPL", AAPD |-> "AAPL",
     GOOGL2 |-> "GOOGL", AMZN2 |-> "AMZN", CONL |-> "COIN", CONY |-> "COIN",
     BITX |-> "BTC-USD", BITU |-> "BTC-USD", ETHU |-> "ETH-USD"]

\* yahoo_client.py 48-50
yahoo_get_underlying(symbol) == Get(yahoo_LEVERAGE_MAP, Upper(symbol), symbol)

\* yahoo_client.py 53-55
yahoo_is_leveraged(symbol) == Upper(symbol) \in DOMAIN yahoo_LEVERAGE_MAP

MaxHoldings == 2

Holding(symbol) ==
    [symbol |-> symbol, name |-> symbol, quantity |-> 10, market |-> "us"]

HoldingLists ==
    UNION {[1..n -> {Holding("AAPL"), Holding("TQQQ")}] : n \in 1..MaxHoldings}

\* what get_stock_data(underlying, "1y") may answer: nothing, a series that
\* is too short, or a year of bars
PfSeries ==
    {NoneDF, [Base EXCEPT !.len = MinBars - 1, !.SpanB = NaN],
     [Base EXCEPT !.len = 252], [RSIOf(400) @@ Base EXCEPT !.len = 252]}

\* what get_fundamentals may answer: {} on failure
PfFundamentals == {EmptyMap, [target_price |-> 12000, sector |-> "Technology"]}

\* what get_stock_data(symbol, "5d") may answer for a leveraged holding
PfLeveraged == {[ok |-> FALSE], [ok |-> TRUE, Close |-> 5000]}

MarketCases ==
    {EmptyMap, [vix |-> 3500, market_sentiment |-> "EXTREME_FEAR"]}

\* variant: the loop stops at the first holding without data
NextHolding_abort(i, n, analysis) ==
    IF "error" \in DOMAIN analysis THEN n + 1 ELSE i + 1

\* the for loop over all_holdings, analyzer.py 879
NextHolding(i, n, analysis) == i + 1

\* the loop body, analyzer.py 880-916
AnalyzeHolding ==
    /\ hidx <= Len(all_holdings)
    /\ LET holding == all_holdings[hidx]
           symbol == holding.symbol
           market == Get(holding, "market", "us")
           underlying == get_underlying(symbol)
           is_leveraged == underlying # symbol
       IN  \E price \in PfSeries, fund \in PfFundamentals,
              lev \in (IF is_leveraged THEN PfLeveraged ELSE {[ok |-> FALSE]}) :
             \E a \in AnalyzeSignals(price, symbol,
                                     IF is_leveraged THEN underlying ELSE "None") :
               LET analysis ==
                       (IF is_leveraged /\ lev.ok
                        THEN [leveraged_price |-> lev.Close] ELSE EmptyMap)
                       @@ [name |-> Get(holding, "name", ""),
                           quantity |-> Get(holding, "quantity", 0),
                           is_leveraged |-> is_leveraged,
                           market |-> market,
                           fundamentals |-> fund]
                       @@ a
               IN  \E strategy \in
                          generate_trading_strategy(analysis, market_indicators) :
                     /\ results' = Append(results,
                                          [strategy |-> strategy] @@ analysis)
                     /\ provider' = Append(provider,
                                           [price |-> price, fundamentals |-> fund])
                     /\ hidx' = NextHolding(hidx, Len(all_holdings), analysis)
    /\ UNCHANGED <<all_holdings, market_indicators>>
    /\ UNCHANGED sigVars
    /\ UNCHANGED modVars
    /\ UNCHANGED fileVars

InitPortfolio ==
    /\ df = NoneDF
    /\ pc = "done"
    /\ signals = NoResult
    /\ locals = NoLocals
    /\ all_holdings \in HoldingLists
    /\ hidx = 1
    /\ results = <<>>
    /\ market_indicators \in MarketCases
    /\ provider = <<>>
    /\ plan = NoStrategy
    /\ bitgak = NoBitgak
    /\ trades = <<>>
    /\ portfolio = NoFile

NextPortfolio == AnalyzeHolding

SpecPortfolio == InitPortfolio /\ [][NextPortfolio]_vars

-----------------------------------------------------------------------------
(* generate_trading_strategy of strategy.py: the crowd-aware plan          *)

\* a watch condition or a crowd entry of the plan, with the value it quotes
Watch(what, value) == [watch |-> what, value |-> value]

\* variant: a score of exactly 5 falls into the lower tier
EntryPlan_above5(score) ==
    IF score > 50
    THEN <<Tranche(50, 0), Tranche(30, -3), Tranche(20, -5)>>
    ELSE <<Tranche(40, 0), Tranche(30, -5), Tranche(30, -10)>>

\* strategy.py 56-73: tranches by score tier
EntryPlan(score) ==
    IF score >= 50
    THEN <<Tranche(50, 0), Tranche(30, -3), Tranche(20, -5)>>
    ELSE <<Tranche(40, 0), Tranche(30, -5), Tranche(30, -10)>>

\* bitgak.get("hvn_price", current_price * 0.95)
HvnPrice(bitgak_in, current_price) ==
    Get(bitgak_in, "hvn_price", (current_price * 95) \div 100)

\* strategy.py 75-79
BitgakEntry(grade, bitgak_in, current_price) ==
    IF grade \in {"STRONG_BITGAK", "BITGAK"}
    THEN <<Watch("bitgak_buy", HvnPrice(bitgak_in, current_price))>>
    ELSE <<>>

\* strategy.py 52-99
BuyPlan(score, current_price, sr, target_price, grade, bitgak_in) ==
    {[action |-> "BUY",
      confidence |-> IF score >= 50 THEN "HIGH" ELSE "MEDIUM",
      position_size |-> IF score >= 50 THEN "30%" ELSE "20%",
      entry_strategy |->
          EntryPlan(score) \o BitgakEntry(grade, bitgak_in, current_price),
      exit_strategy |-> <<>>,
      stop_loss |-> sl,
      take_profit |-> tp,
      reasoning |->
          (IF score >= 50 THEN <<"strong_buy_signal">> ELSE <<"buy_signal">>)
          \o (IF grade \in {"STRONG_BITGAK", "BITGAK"}
              THEN <<"bitgak_entry">> ELSE <<>>)] :
        sl \in StopLosses(sr.support, current_price),
        tp \in TakeProfits(current_price, target_price, sr.resistance)}

\* variant: the rest is sold at the current price as well
SellPlan_flat(score, return_1m) ==
    [action |-> "SELL",
     confidence |-> IF score <= -50 THEN "HIGH" ELSE "MEDIUM",
     position_size |-> "0%",
     entry_strategy |-> <<>>,
     exit_strategy |-> <<Tranche(50, 0), Tranche(50, 0)>>,
     stop_loss |-> NoStopLoss,
     take_profit |-> <<>>,
     reasoning |-> IF return_1m < -1500 THEN <<"sell_signal", "plunge">>
                                        ELSE <<"sell_signal">>]

\* strategy.py 102-115
SellPlan(score, return_1m) ==
    [action |-> "SELL",
     confidence |-> IF score <= -50 THEN "HIGH" ELSE "MEDIUM",
     position_size |-> "0%",
     entry_strategy |-> <<>>,
     exit_strategy |-> <<Tranche(50, 0), Tranche(50, 3)>>,
     stop_loss |-> NoStopLoss,
     take_profit |-> <<>>,
     reasoning |-> IF return_1m < -1500 THEN <<"sell_signal", "plunge">>
                                        ELSE <<"sell_signal">>]

\* variant: the crowd conditions are added to the generic ones
HoldPlan_both(grade, bitgak_in, current_price, sr) ==
    [action |-> "HOLD",
     confidence |-> "MEDIUM",
     position_size |-> "keep_current",
     entry_strategy |->
         (IF grade # "NONE"
          THEN <<Watch("bitgak_wait", HvnPrice(bitgak_in, current_price)),
                 Watch("csi_check", Get(bitgak_in, "csi", NaN))>>
          ELSE <<>>)
         \o <<Watch("support_holds", sr.support), Watch("rsi_below_30", 30)>>,
     exit_strategy |->
         <<Watch("resistance_fails", sr.resistance), Watch("rsi_above_70", 70)>>,
     stop_loss |-> NoStopLoss,
     take_profit |-> <<>>,
     reasoning |-> IF grade # "NONE" THEN <<"no_direction", "bitgak_wait">>
                                     ELSE <<"no_direction">>]

\* strategy.py 118-142
HoldPlan(grade, bitgak_in, current_price, sr) ==
    [action |-> "HOLD",
     confidence |-> "MEDIUM",
     position_size |-> "keep_current",
     entry_strategy |->
         IF grade # "NONE"
         THEN <<Watch("bitgak_wait", HvnPrice(bitgak_in, current_price)),
                Watch("csi_check", Get(bitgak_in, "csi", NaN))>>
         ELSE <<Watch("support_holds", sr.support), Watch("rsi_below_30", 30)>>,
     exit_strategy |->
         IF grade # "NONE" THEN <<>>
         ELSE <<Watch("resistance_fails", sr.resistance),
                Watch("rsi_above_70", 70)>>,
     stop_loss |-> NoStopLoss,
     take_profit |-> <<>>,
     reasoning |-> IF grade # "NONE" THEN <<"no_direction", "bitgak_wait">>
                                     ELSE <<"no_direction">>]

\* the warnings the aggregator attaches; "None" is no warning.  The texts
\* of "chasing" and "far" hold the words strategy.py 158 looks for
Warnings == {"chasing", "capitulation", "far", "generic"}
WarnsReduce(bitgak_warning) == bitgak_warning \in {"chasing", "far"}

\* variant: a size already capped at 10% is halved as well
Halved_capped(position_size) ==
    CASE position_size = "30%" -> "15%"
      [] position_size = "20%" -> "10%"
      [] position_size = "10%" -> "5%"
      [] OTHER -> position_size

\* strategy.py 160-163
Halved(position_size) ==
    CASE position_size = "30%" -> "15%"
      [] position_size = "20%" -> "10%"
      [] OTHER -> position_size

\* strategy.py 153-164
WarningOverlay(s, bitgak_warning) ==
    IF bitgak_warning # "None" /\ s.action = "BUY"
    THEN IF WarnsReduce(bitgak_warning)
         THEN [s EXCEPT !.reasoning = @ \o <<bitgak_warning, "reduced">>,
                        !.confidence = "LOW",
                        !.position_size = Halved(@)]
         ELSE [s EXCEPT !.reasoning = Append(@, bitgak_warning)]
    ELSE s

\* strategy.py 9-166; the set of strategies the float arithmetic may produce
strategy_generate_trading_strategy(analysis, mi) ==
    LET current_price == Get(analysis, "current_price", 0)
        recommendation == Get(analysis, "recommendation", "HOLD")
        fundamentals == Get(analysis, "fundamentals", EmptyMap)
        sr_in == Get(analysis, "support_resistance", EmptyMap)
        momentum == Get(analysis, "momentum", EmptyMap)
        score == Get(analysis, "score", 0)
        bitgak_in == Get(analysis, "bitgak", EmptyMap)
        target_price == Get(fundamentals, "target_price", 0)
        sr == [support |-> Get(sr_in, "support", (current_price * 9) \div 10),
               resistance |->
                   Get(sr_in, "resistance", (current_price * 11) \div 10)]
        market_sentiment == Get(mi, "market_sentiment", "NEUTRAL")
        bitgak_grade == Get(bitgak_in, "grade", "NONE")
        bitgak_warning == Get(analysis, "bitgak_warning", "None")
        plans ==
            IF recommendation \in {"STRONG_BUY", "BUY"}
            THEN BuyPlan(score, current_price, sr, target_price, bitgak_grade,
                         bitgak_in)
            ELSE IF recommendation \in {"STRONG_SELL", "SELL"}
            THEN {SellPlan(score, Get(momentum, "return_1m", 0))}
            ELSE {HoldPlan(bitgak_grade, bitgak_in, current_price, sr)}
    IN  IF current_price = 0 THEN {DefaultStrategy}
        ELSE {WarningOverlay(MarketOverlay(p, market_sentiment),
                             bitgak_warning) : p \in plans}

\* the analyses handed to the generator: recommendation with a score it
\* can come with (a SELL forced by the RSI override keeps its high score)
BuyCores ==
    {[recommendation |-> "STRONG_BUY", score |-> 40],
     [recommendation |-> "STRONG_BUY", score |-> 49],
     [recommendation |-> "STRONG_BUY", score |-> 50],
     [recommendation |-> "BUY", score |-> 20]}
SellCores ==
    {[recommendation |-> "SELL", score |-> -20],
     [recommendation |-> "SELL", score |-> 60],
     [recommendation |-> "STRONG_SELL", score |-> -49],
     [recommendation |-> "STRONG_SELL", score |-> -50]}
HoldCores ==
    {[recommendation |-> "HOLD", score |-> 0],
     [recommendation |-> "HOLD", score |-> 10]}

Levels(support, resistance) ==
    [support_resistance |-> [support |-> support, resistance |-> resistance]]
Target(target_price) == [fundamentals |-> [target_price |-> target_price]]

\* price, levels and analyst target: a target at, just above and below 10%
\* upside; a support below, at and above the price; a price of 12 cents
PriceCases ==
    {l @@ t @@ [current_price |-> 10000] :
        l \in {EmptyMap, Levels(9500, 10500), Levels(10000, 10500),
               Levels(10400, 10600)},
        t \in {EmptyMap, [fundamentals |-> EmptyMap], Target(10500),
               Target(11000), Target(11010)}}
    \cup {Levels(12, 13) @@ [current_price |-> 12],
          Levels(17, 18) @@ [current_price |-> 17],
          Levels(9500, 10500) @@ [current_price |-> 0]}

BitgakCases ==
    {EmptyMap, [bitgak |-> [grade |-> "NONE", hvn_price |-> 9800, csi |-> 150]],
     [bitgak |-> [grade |-> "BITGAK", hvn_price |-> 9800, csi |-> 150]],
     [bitgak |-> [grade |-> "STRONG_BITGAK"]]}

WarningCases == {EmptyMap} \cup {[bitgak_warning |-> w] : w \in Warnings}

MomentumCases ==
    {EmptyMap} \cup {[momentum |-> [return_1m |-> m]] : m \in {-1501, -1500}}

StrategyAnalyses ==
    {c @@ q @@ b @@ w : c \in BuyCores, q \in PriceCases, b \in BitgakCases,
                        w \in WarningCases}
    \cup {c @@ m @@ b @@ w @@ Levels(9500, 10500) @@ [current_price |-> 10000] :
             c \in SellCores, m \in MomentumCases,
             b \in {EmptyMap, [bitgak |-> [grade |-> "STRONG_BITGAK"]]},
             w \in {EmptyMap, [bitgak_warning |-> "chasing"]}}
    \cup {c @@ q @@ b @@ w :
             c \in HoldCores,
             q \in {Levels(9500, 10500) @@ [current_price |-> 10000],
                    [current_price |-> 10000],
                    Levels(0, 0) @@ [current_price |-> 0]},
             b \in BitgakCases,
             w \in {EmptyMap, [bitgak_warning |-> "chasing"]}}
    \cup {InsufficientData(Symbol)}

SentimentCases ==
    {EmptyMap, [vix |-> 3500, market_sentiment |-> "EXTREME_FEAR"],
     [vix |-> 1200, market_sentiment |-> "EXTREME_GREED"]}

\* one call of generate_trading_strategy(analysis, market_indicators)
GenerateStrategy ==
    /\ pc = "start"
    /\ pc' = "done"
    /\ plan' \in strategy_generate_trading_strategy(signals,
                                                    market_indicators)
    /\ UNCHANGED <<df, signals, locals, bitgak>>
    /\ UNCHANGED <<all_holdings, hidx, results, market_indicators, provider>>
    /\ UNCHANGED fileVars

InitStrategy ==
    /\ df = NoneDF
    /\ pc = "start"
    /\ signals \in StrategyAnalyses
    /\ locals = NoLocals
    /\ all_holdings = <<>>
    /\ hidx = 1
    /\ results = <<>>
    /\ market_indicators \in SentimentCases
    /\ provider = <<>>
    /\ plan = NoStrategy
    /\ bitgak = NoBitgak
    /\ trades = <<>>
    /\ portfolio = NoFile

NextStrategy == GenerateStrategy

SpecStrategy == InitStrategy /\ [][NextStrategy]_vars

-----------------------------------------------------------------------------
(* Leveraged-symbol resolution on its own: the first lines of the loop     *)
(* body of analyze_portfolio and the two functions of yahoo_client.py,    *)
(* applied to one holding, and then to the underlying that was resolved.   *)

\* every key and every value of the table, symbols outside it, and
\* lower-case and mixed-case spellings
LeverageSymbols ==
    DOMAIN LEVERAGE_MAP \cup {LEVERAGE_MAP[k] : k \in DOMAIN LEVERAGE_MAP}
    \cup {"MSFT", "005930.KS", "tqqq", "Tqqq", "aapl", "qqq", "soxl", "bitx",
          "googl2", "btc-usd", "msft"}

\* analyzer.py 880-883 and yahoo_client.py 48-55 on the holding
ResolveHolding ==
    /\ pc = "start"
    /\ pc' = "resolved"
    /\ LET symbol == all_holdings[hidx].symbol
           underlying == get_underlying(symbol)
           is_leveraged == underlying # symbol
       IN  locals' = [symbol |-> symbol,
                      underlying |-> underlying,
                      is_leveraged |-> is_leveraged,
                      yahoo_underlying |-> yahoo_get_underlying(symbol),
                      yahoo_is_leveraged |-> yahoo_is_leveraged(symbol)]
    /\ UNCHANGED <<df, signals, all_holdings, hidx, results>>
    /\ UNCHANGED <<market_indicators, provider, plan, bitgak>>
    /\ UNCHANGED fileVars

\* the same resolution applied to the underlying
ResolveUnderlying ==
    /\ pc = "resolved"
    /\ pc' = "again"
    /\ LET symbol == locals.underlying
           underlying == get_underlying(symbol)
       IN  locals' = [first |-> locals,
                      symbol |-> symbol,
                      underlying |-> underlying,
                      is_leveraged |-> underlying # symbol,
                      yahoo_underlying |-> yahoo_get_underlying(symbol),
                      yahoo_is_leveraged |-> yahoo_is_leveraged(symbol)]
    /\ UNCHANGED <<df, signals, all_holdings, hidx, results>>
    /\ UNCHANGED <<market_indicators, provider, plan, bitgak>>
    /\ UNCHANGED fileVars

InitLeverage ==
    /\ df = NoneDF
    /\ pc = "start"
    /\ signals = NoResult
    /\ locals = NoLocals
    /\ all_holdings \in {<<Holding(s)>> : s \in LeverageSymbols}
    /\ hidx = 1
    /\ results = <<>>
    /\ market_indicators = EmptyMap
    /\ provider = <<>>
    /\ plan = NoStrategy
    /\ bitgak = NoBitgak
    /\ trades = <<>>
    /\ portfolio = NoFile

NextLeverage == ResolveHolding \/ ResolveUnderlying

SpecLeverage == InitLeverage /\ [][NextLeverage]_vars

-----------------------------------------------------------------------------
(* bitgak.py: the crowd-positioning module.  The series carries, besides   *)
(* its bars, the values the module computes from them: the 20-bar VWAP,    *)
(* the high-volume node, and the most recent qualifying high and low of    *)
(* the trailing window with their positions in that window.                *)

Lookback == 60

BitgakCols == {"VWAP", "VWAP_20", "CSI", "HVN_Price", "HVN_Proximity"}

\* csi = (Close - VWAP_20) / VWAP_20 * 100 compared with k: csi >= k, csi > k
CsiGE(d, k) == (d.Close - d.VWAP_20) * 100 >= k * d.VWAP_20
CsiGT(d, k) == (d.Close - d.VWAP_20) * 100 > k * d.VWAP_20

\* bitgak.py 195-206, in hundredths of a point
CsiScore(d) ==
    IF ~notna(d.VWAP_20) THEN 0
    ELSE IF CsiGE(d, -5) /\ ~CsiGT(d, 2) THEN 100
    ELSE IF ~CsiGE(d, -10) THEN 50
    ELSE IF CsiGT(d, 10) THEN -50
    ELSE 0

CsiText(d) ==
    IF ~notna(d.VWAP_20) THEN <<>>
    ELSE IF CsiGE(d, -5) /\ ~CsiGT(d, 2) THEN <<"csi_near">>
    ELSE IF ~CsiGE(d, -10) THEN <<"csi_fear">>
    ELSE IF CsiGT(d, 10) THEN <<"csi_greed">>
    ELSE <<>>

\* hvn_proximity = abs(Close - hvn_price) / Close * 100 < k
HvnBelow(d, k) == Abs(d.Close - d.hvn_price) * 100 < k * d.Close

\* bitgak.py 208-216
HvnScore(d) == IF HvnBelow(d, 2) THEN 100 ELSE IF HvnBelow(d, 5) THEN 50 ELSE 0
HvnText(d) ==
    IF HvnBelow(d, 2) THEN <<"hvn_touch">>
    ELSE IF HvnBelow(d, 5) THEN <<"hvn_near">> ELSE <<>>

\* find_bitgak_lines, bitgak.py 124-149: the lines fitted through the last
\* qualifying high and low, by their positions inside the trailing window
find_bitgak_lines(d) ==
    IF d.has_high /\ d.has_low /\ d.high_idx # d.low_idx
    THEN <<[type |-> IF (d.low_price - d.high_price) * (d.low_idx - d.high_idx) < 0
                     THEN "falling" ELSE "rising",
            high_idx |-> d.high_idx, high_price |-> d.high_price,
            run |-> d.low_idx - d.high_idx,
            rise |-> d.low_price - d.high_price]>>
    ELSE <<>>

\* detect_bitgak_touch for one line, bitgak.py 163-166:
\* line_price = slope * current_idx + intercept, with slope = rise / run and
\* intercept = high_price - slope * high_idx;
\* abs(current_price - line_price) / current_price < 0.02
Touches(current_price, line, current_idx) ==
    Abs(current_price * line.run
          - (line.high_price * line.run + line.rise * (current_idx - line.high_idx)))
        * 100 < 2 * current_price * Abs(line.run)

\* detect_bitgak_touch, bitgak.py 152-169: the type of the first line touched
detect_bitgak_touch(current_price, bitgak_lines, current_idx) ==
    IF \E i \in 1..Len(bitgak_lines) :
           Touches(current_price, bitgak_lines[i], current_idx)
    THEN LET i == CHOOSE k \in 1..Len(bitgak_lines) :
                    /\ Touches(current_price, bitgak_lines[k], current_idx)
                    /\ \A j \in 1..(k - 1) :
                          ~Touches(current_price, bitgak_lines[j], current_idx)
         IN  [touched |-> TRUE, type |-> bitgak_lines[i].type]
    ELSE [touched |-> FALSE, type |-> "None"]

\* bitgak.py 224: the index passed to detect_bitgak_touch
TouchIndex(d) == d.len - 1

\* bitgak.py 218-231
TouchOf(d) == detect_bitgak_touch(d.Close, find_bitgak_lines(d), TouchIndex(d))
TouchScore(d) == IF TouchOf(d).touched THEN 100 ELSE 0
TouchText(d) ==
    IF ~TouchOf(d).touched THEN <<>>
    ELSE IF TouchOf(d).type = "falling" THEN <<"falling_touch">>
    ELSE <<"rising_touch">>

\* bitgak.py 234-235: latest.get('RSI', 50) < 35 on the unrounded column
RsiBelow35(d) ==
    /\ "RSI" \in d.cols
    /\ notna(d.gain) /\ notna(d.loss) /\ d.loss # 0
    /\ 100 * d.gain < 35 * (d.gain + d.loss)

RsiBonus(d) == IF RsiBelow35(d) THEN 50 ELSE 0
RsiBonusText(d) == IF RsiBelow35(d) THEN <<"rsi_oversold_boost">> ELSE <<>>

\* variant: a sub-score of exactly 2.5 is only moderate
BitgakGrade_above(score) ==
    IF score > 250 THEN "STRONG_BITGAK"
    ELSE IF score >= 150 THEN "BITGAK" ELSE "NONE"

\* bitgak.py 239-247
BitgakGrade(score) ==
    IF score >= 250 THEN "STRONG_BITGAK"
    ELSE IF score >= 150 THEN "BITGAK" ELSE "NONE"

GradeHeader(grade) ==
    IF grade = "STRONG_BITGAK" THEN <<"strong_bitgak_header">>
    ELSE IF grade = "BITGAK" THEN <<"bitgak_header">> ELSE <<>>

\* analyze_bitgak_signal, bitgak.py 172-258: the records it may return
analyze_bitgak_signal(d) ==
    IF d.len < Lookback
    THEN {[score |-> 0, signals |-> <<>>, error |-> "insufficient_data"]}
    ELSE LET score == CsiScore(d) + HvnScore(d) + TouchScore(d) + RsiBonus(d)
             grade == BitgakGrade(score)
             texts == CsiText(d) \o HvnText(d) \o TouchText(d) \o RsiBonusText(d)
         IN  {[score |-> rscore,
               grade |-> grade,
               signals |-> GradeHeader(grade) \o texts,
               csi |-> csi,
               hvn_price |-> d.hvn_price,
               hvn_proximity |-> prox,
               bitgak_lines |-> Len(find_bitgak_lines(d))] :
                 rscore \in RoundDiv(score, 10),
                 csi \in (IF notna(d.VWAP_20)
                          THEN RoundDiv((d.Close - d.VWAP_20) * 10000, d.VWAP_20)
                          ELSE {NaN}),
                 prox \in RoundDiv(Abs(d.Close - d.hvn_price) * 10000, d.Close)}

\* one call of analyze_bitgak_signal(df); calculate_bitgak_vwap, _csi and
\* _hvn write their columns into the caller's frame
AnalyzeBitgak ==
    /\ pc = "start"
    /\ pc' = "done"
    /\ bitgak' \in analyze_bitgak_signal(df)
    /\ df' = IF df.len < Lookback THEN df
             ELSE [df EXCEPT !.cols = @ \cup BitgakCols]
    /\ UNCHANGED <<signals, locals, plan>>
    /\ UNCHANGED pfVars
    /\ UNCHANGED fileVars

NoLine ==
    [has_high |-> FALSE, has_low |-> FALSE, high_idx |-> 0, high_price |-> 0,
     low_idx |-> 0, low_price |-> 0]
Line(hi, hp, li, lp) ==
    [has_high |-> TRUE, has_low |-> TRUE, high_idx |-> hi, high_price |-> hp,
     low_idx |-> li, low_price |-> lp]

\* the lines: none; high and low on the same bar; a falling line that meets
\* the close at window position 59 only; one that meets it at 59 and at 99;
\* a rising line far from the close
LineCases ==
    {NoLine, Line(20, 10100, 20, 9900), Line(10, 11000, 40, 10400),
     Line(10, 10100, 40, 10050), Line(40, 10000, 10, 9000)}

\* crowd stress around -10, -5, +2 and +10 (close 100.00)
VwapCases ==
    {[VWAP_20 |-> v] : v \in {NaN, 8900, 9090, 9800, 9804, 10000, 10526,
                              10527, 11111, 11112}}

\* node proximity around 2% and 5%
HvnCases == {[hvn_price |-> h] : h \in {10000, 10199, 10200, 10499, 10500}}

\* RSI 30, 35 and 50, computed on the frame or not
RsiCases ==
    {[gain |-> 600, loss |-> 1400, cols |-> PriceCols],
     [gain |-> 600, loss |-> 1400, cols |-> PriceCols \cup IndicatorCols],
     [gain |-> 700, loss |-> 1300, cols |-> PriceCols \cup IndicatorCols],
     [gain |-> 1000, loss |-> 1000, cols |-> PriceCols \cup IndicatorCols]}

BitgakInputs ==
    {[len |-> n] @@ v @@ h @@ l @@ r @@ Base :
        n \in {Lookback - 1, Lookback, 100}, v \in VwapCases,
        h \in HvnCases, l \in LineCases, r \in RsiCases}

InitBitgak == InitCall(BitgakInputs)

NextBitgak == AnalyzeBitgak

SpecBitgak == InitBitgak /\ [][NextBitgak]_vars

-----------------------------------------------------------------------------
(* The crowd-positioning analysis on a fresh series, then analyze_signals  *)
(* on the same series object, then the crowd-positioning analysis again.   *)

\* analyze_signals(df, symbol) on the frame the crowd analysis has been run
\* on; its calculate_* calls write the indicator columns into that frame
AnalyzeSameFrame ==
    /\ pc = "done"
    /\ bitgak # NoBitgak
    /\ pc' = "analyzed"
    /\ signals' \in AnalyzeSignals(df, Symbol, "None")
    /\ df' = IF TooShort(df) THEN df ELSE WithIndicators(df)
    /\ locals' = [first |-> bitgak]
    /\ UNCHANGED <<plan, bitgak>>
    /\ UNCHANGED pfVars
    /\ UNCHANGED fileVars

\* analyze_bitgak_signal(df) once more, on the frame as it is now
AnalyzeBitgakAgain ==
    /\ pc = "analyzed"
    /\ pc' = "again"
    /\ bitgak' \in analyze_bitgak_signal(df)
    /\ df' = IF df.len < Lookback THEN df
             ELSE [df EXCEPT !.cols = @ \cup BitgakCols]
    /\ UNCHANGED <<signals, locals, plan>>
    /\ UNCHANGED pfVars
    /\ UNCHANGED fileVars

\* fresh series (price columns only) of 59, 60 and 100 bars with an RSI of
\* 30, 35 and 50
OrderInputs ==
    {[len |-> n, gain |-> g, loss |-> 2000 - g, cols |-> PriceCols]
       @@ v @@ h @@ l @@ Base :
        n \in {Lookback - 1, Lookback, 100}, g \in {600, 700, 1000},
        v \in {[VWAP_20 |-> x] : x \in {8900, 10000, 10527, 11112}},
        h \in {[hvn_price |-> x] : x \in {10000, 10499}},
        l \in {NoLine, Line(10, 10100, 40, 10050)}}

InitOrder == InitCall(OrderInputs)

NextOrder == AnalyzeBitgak \/ AnalyzeSameFrame \/ AnalyzeBitgakAgain

SpecOrder == InitOrder /\ [][NextOrder]_vars

-----------------------------------------------------------------------------
(* trade.py: the manual trade ledger.  A trade is recorded with its id,    *)
(* type and symbol; the date, time, quantity, price, total and memo it     *)
(* also carries play no part in add_trade's choice of the id nor in        *)
(* delete_trade's filter.                                                  *)

MaxTrades == 3

\* add_trade(trade_type, symbol, quantity, price), trade.py 33-60
AddTrade(trade_type, symbol) ==
    /\ Len(trades) < MaxTrades
    /\ LET trade == [id |-> Len(trades) + 1,
                     type |-> trade_type,
                     symbol |-> Upper(symbol)]
       IN  /\ trades' = Append(trades, trade)
           /\ locals' = [op |-> "add_trade", trade |-> trade, removed |-> 0]
    /\ UNCHANGED <<df, pc, signals, portfolio>>
    /\ UNCHANGED pfVars
    /\ UNCHANGED modVars

\* delete_trade(trade_id), trade.py 134-145
DeleteTrade(trade_id) ==
    /\ LET kept == SelectSeq(trades, LAMBDA t : t.id # trade_id)
       IN  /\ trades' = kept
           /\ locals' = [op |-> "delete_trade", trade_id |-> trade_id,
                         removed |-> Len(trades) - Len(kept)]
    /\ UNCHANGED <<df, pc, signals, portfolio>>
    /\ UNCHANGED pfVars
    /\ UNCHANGED modVars

\* no file yet: load_trades() answers {"trades": []}, trade.py 18-23
InitTrades ==
    /\ df = NoneDF
    /\ pc = "start"
    /\ signals = NoResult
    /\ locals = NoLocals
    /\ all_holdings = <<>>
    /\ hidx = 1
    /\ results = <<>>
    /\ market_indicators = EmptyMap
    /\ provider = <<>>
    /\ plan = NoStrategy
    /\ bitgak = NoBitgak
    /\ trades = <<>>
    /\ portfolio = NoFile

NextTrades ==
    \/ \E trade_type \in {"buy", "sell"}, symbol \in {"aapl", "TQQQ"} :
          AddTrade(trade_type, symbol)
    \/ \E trade_id \in 0..(MaxTrades + 1) : DeleteTrade(trade_id)

SpecTrades == InitTrades /\ [][NextTrades]_vars

-----------------------------------------------------------------------------
(* portfolio.py: the stored portfolio.  The file is absent, or holds a     *)
(* dictionary of market segments, or the older flat list of holdings, or   *)
(* no "holdings" entry at all.  save_portfolio also stamps updated_at; the *)
(* call record notes whether it was called.                                *)

StoredHolding(symbol) == [symbol |-> symbol, name |-> "name", quantity |-> 0]

DictFile(holdings) == [kind |-> "dict", holdings |-> holdings]
ListFile(list) == [kind |-> "list", list |-> list]
NoHoldingsFile == [kind |-> "nokey"]

\* {"us": [], "kr": [], "crypto": []}, portfolio.py 35
EmptySegments == [m \in {"us", "kr", "crypto"} |-> <<>>]

\* variant: the duplicate check compares the symbols as written
SymbolIn_exact(list, symbol) ==
    \E i \in 1..Len(list) : list[i].symbol = symbol

\* portfolio.py 47-48: h["symbol"].upper() == symbol.upper() for some h
SymbolIn(list, symbol) ==
    \E i \in 1..Len(list) : Upper(list[i].symbol) = Upper(symbol)

\* portfolio.py 35-44: the holdings dictionary add_holding works on
HoldingsOf(p, market) ==
    LET holdings == CASE p.kind = "dict" -> p.holdings
                      [] p.kind = "list" -> [EmptySegments EXCEPT !["us"] = p.list]
                      [] p.kind = "none" -> EmptySegments
                      [] OTHER -> EmptyMap
    IN  IF market \in DOMAIN holdings THEN holdings
        ELSE [m \in DOMAIN holdings \cup {market} |->
                 IF m = market THEN <<>> ELSE holdings[m]]

\* add_holding(symbol, name, quantity, market), portfolio.py 33-60
AddHolding(symbol, market) ==
    /\ LET holdings == HoldingsOf(portfolio, market)
           call == [op |-> "add_holding", symbol |-> symbol, market |-> market,
                    before |-> portfolio]
       IN  IF SymbolIn(holdings[market], symbol)
           THEN /\ portfolio' = portfolio
                /\ locals' = call @@ [ret |-> FALSE, saved |-> FALSE]
           ELSE /\ portfolio' =
                      IF portfolio.kind = "nokey" THEN portfolio
                      ELSE DictFile([holdings EXCEPT ![market] =
                               Append(@, StoredHolding(Upper(symbol)))])
                /\ locals' = call @@ [ret |-> TRUE, saved |-> TRUE]
    /\ UNCHANGED <<df, pc, signals, trades>>
    /\ UNCHANGED pfVars
    /\ UNCHANGED modVars

\* remove_holding(symbol, market), portfolio.py 63-82
RemoveHolding(symbol, market) ==
    /\ LET call == [op |-> "remove_holding", symbol |-> symbol,
                    market |-> market, before |-> portfolio]
           refused == /\ portfolio' = portfolio
                      /\ locals' = call @@ [ret |-> FALSE, saved |-> FALSE]
       IN  IF portfolio.kind # "dict" THEN refused
           ELSE IF market \notin DOMAIN portfolio.holdings THEN refused
           ELSE LET kept == SelectSeq(portfolio.holdings[market],
                                LAMBDA h : Upper(h.symbol) # Upper(symbol))
                IN  IF Len(kept) < Len(portfolio.holdings[market])
                    THEN /\ portfolio' =
                               DictFile([portfolio.holdings EXCEPT ![market] = kept])
                         /\ locals' = call @@ [ret |-> TRUE, saved |-> TRUE]
                    ELSE refused
    /\ UNCHANGED <<df, pc, signals, trades>>
    /\ UNCHANGED pfVars
    /\ UNCHANGED modVars

\* the stored portfolios the calls start from, none with a duplicate
PortfolioFiles ==
    {NoFile, NoHoldingsFile, DictFile(EmptySegments),
     DictFile([EmptySegments EXCEPT !["us"] = <<StoredHolding("aapl")>>]),
     DictFile([m \in {"us"} |-> <<StoredHolding("TQQQ")>>]),
     ListFile(<<StoredHolding("AAPL"), StoredHolding("tqqq")>>)}

InitHoldings ==
    /\ df = NoneDF
    /\ pc = "start"
    /\ signals = NoResult
    /\ locals = NoLocals
    /\ all_holdings = <<>>
    /\ hidx = 1
    /\ results = <<>>
    /\ market_indicators = EmptyMap
    /\ provider = <<>>
    /\ plan = NoStrategy
    /\ bitgak = NoBitgak
    /\ trades = <<>>
    /\ portfolio \in PortfolioFiles

NextHoldings ==
    \E symbol \in {"AAPL", "aapl", "TQQQ"}, market \in {"us", "kr", "jp"} :
        AddHolding(symbol, market) \/ RemoveHolding(symbol, market)

SpecHoldings == InitHoldings /\ [][NextHoldings]_vars

-----------------------------------------------------------------------------
(* Properties of analyze_signals                                           *)

HasError(res) == "error" \in DOMAIN res

\* C1: a latest RSI of 80 or more (as rounded to one decimal) always gives
\* recommendation SELL, whatever the score, flags, combination bonuses and
\* signal counts are.
C1_RsiOverrideSell ==
    (Returned /\ notna(locals.r.rsi) /\ locals.r.rsi >= 800)
        => signals.recommendation = "SELL"

\* a golden cross and a score of 4.0 or more together with RSI >= 80
C1_Witness ==
    /\ Returned
    /\ notna(locals.r.rsi) /\ locals.r.rsi >= 800
    /\ "golden_cross" \in locals.signal_flags
    /\ signals.score >= 40
    /\ signals.buy_signals > signals.sell_signals
    /\ signals.recommendation = "SELL"

\* the rule of the specification, on a score in tenths and the two counts
RefRatioGE(count, total, tenths) ==
    IF total = 0 THEN FALSE ELSE 10 * count >= tenths * total

RefRecommendation(score, buy, sell) ==
    LET total == buy + sell
    IN  CASE score >= 40 \/ (score >= 20 /\ RefRatioGE(buy, total, 8))
               -> "STRONG_BUY"
          [] ~(score >= 40 \/ (score >= 20 /\ RefRatioGE(buy, total, 8)))
             /\ (score >= 20 \/ (score >= 15 /\ RefRatioGE(buy, total, 7)))
               -> "BUY"
          [] score < 15 /\ (score <= -40
                            \/ (score <= -20 /\ RefRatioGE(sell, total, 8)))
               -> "STRONG_SELL"
          [] score < 15
             /\ ~(score <= -40 \/ (score <= -20 /\ RefRatioGE(sell, total, 8)))
             /\ (score <= -20 \/ (score <= -15 /\ RefRatioGE(sell, total, 7)))
               -> "SELL"
          [] OTHER -> "HOLD"

\* C2: without the RSI override, the recommendation is the reference rule
\* applied to the rounded score and the buy/sell counts; score 4.0 with
\* buy-ratio 0.5 is STRONG_BUY and score 3.9 with buy-ratio < 0.8 is BUY.
C2_RecommendationRule ==
    (Returned /\ locals.rsi_override # "SELL")
        => /\ signals.recommendation =
                RefRecommendation(signals.score, signals.buy_signals,
                                  signals.sell_signals)
           /\ (signals.score = 40 => signals.recommendation = "STRONG_BUY")
           /\ (signals.score = 39
               /\ 10 * signals.buy_signals
                    < 8 * (signals.buy_signals + signals.sell_signals)
                 => signals.recommendation = "BUY")

\* score 4.0 with as many sell signals as buy signals
C2_Witness ==
    /\ Returned /\ locals.rsi_override # "SELL"
    /\ signals.score = 40
    /\ signals.buy_signals = signals.sell_signals /\ signals.buy_signals > 0
    /\ signals.recommendation = "STRONG_BUY"

\* C3: a missing series or one of fewer than 60 bars gives the record
\* {symbol, error} and nothing else, and no indicator column is computed.
C3_InsufficientData ==
    (pc = "done" /\ (df.is_none \/ df.len < 60))
        => /\ DOMAIN signals = {"symbol", "error"}
           /\ signals.symbol = Symbol
           /\ signals.error = "insufficient_data"
           /\ ~locals.called
           /\ df.cols \cap IndicatorCols = {}

\* a series of 59 bars was refused
C3_Witness ==
    /\ pc = "done" /\ ~df.is_none /\ df.len = 59
    /\ HasError(signals)

\* the confidence rule of the specification on the two counts
RefConfidence(buy, sell) ==
    LET total == buy + sell
    IN  IF total < 3 THEN "LOW"
        ELSE IF 10 * buy >= 7 * total \/ 10 * sell >= 7 * total THEN "HIGH"
        ELSE IF 2 * buy >= total \/ 2 * sell >= total THEN "MEDIUM"
        ELSE "LOW"

\* C8: confidence is LOW below 3 tagged signals, else HIGH if either ratio
\* is >= 0.7, else MEDIUM if either is >= 0.5, else LOW; it depends on the
\* counts only.
C8_Confidence ==
    Returned => signals.confidence =
                    RefConfidence(signals.buy_signals, signals.sell_signals)

\* exactly three tagged signals, two of them bullish, under a strong score
C8_Witness ==
    /\ Returned
    /\ signals.buy_signals = 2 /\ signals.sell_signals = 1
    /\ signals.score >= 40
    /\ signals.confidence = "MEDIUM"

\* the texts of the result, as a set
Texts(res) == {res.signals[i] : i \in 1..Len(res.signals)}

\* score change between two stages of the call
Delta(st, from, to) == st[to].score - st[from].score

\* the tiers of the specification in their priority order
RefTierHolds(k, rsi) ==
    CASE k = 1 -> rsi >= 800
      [] k = 2 -> rsi >= 700
      [] k = 3 -> rsi <= 200
      [] k = 4 -> rsi <= 300
      [] k = 5 -> rsi >= 600
      [] k = 6 -> rsi <= 400
      [] OTHER -> TRUE

RefTier(rsi) ==
    CHOOSE k \in 1..7 :
        RefTierHolds(k, rsi) /\ \A j \in 1..(k - 1) : ~RefTierHolds(j, rsi)

RefTierDelta == <<0, -2000, 5000, 2000, 500, -500, 0>>
RefTierText ==
    <<"rsi_80", "rsi_70", "rsi_20", "rsi_30", "rsi_60", "rsi_40", "rsi_neutral">>

RsiTierTexts == {RefTierText[k] : k \in 1..7}

\* C5: with an RSI value, exactly one tier applies, in the priority order
\* >=80, >=70, <=20, <=30, >=60, <=40, else, scoring 0 (override), -2, +5,
\* +2, +0.5, -0.5, 0; one RSI text is emitted; only the >=80 tier sets the
\* override, so RSI <= 20 leaves the decision to the score rule.
C5_RsiTiers ==
    (Returned /\ notna(locals.r.rsi)) =>
        LET rsi == locals.r.rsi
            k == RefTier(rsi)
            b == locals.st.ichimoku
            a == locals.st.rsi
        IN  /\ a.score - b.score = RefTierDelta[k]
            /\ a.sigs = Append(b.sigs, RefTierText[k])
            /\ Cardinality({i \in 1..Len(signals.signals) :
                               signals.signals[i] \in RsiTierTexts}) = 1
            /\ (locals.rsi_override = "SELL") = (k = 1)
            /\ (rsi <= 200 =>
                  signals.recommendation =
                      RefRecommendation(signals.score, signals.buy_signals,
                                        signals.sell_signals))

\* an RSI of 20 or less that is scored +5 and still ends in a sell category
C5_Witness ==
    /\ Returned /\ notna(locals.r.rsi) /\ locals.r.rsi <= 200
    /\ Delta(locals.st, "ichimoku", "rsi") = 5000
    /\ signals.recommendation \in {"SELL", "STRONG_SELL"}

RefMultiplier(vol_ratio) ==
    IF ~notna(vol_ratio) THEN 100
    ELSE IF vol_ratio >= 200 THEN 130
    ELSE IF vol_ratio >= 150 THEN 115
    ELSE IF vol_ratio <= 50 THEN 70
    ELSE 100

Fired(res, up, down) ==
    IF up \in Texts(res) THEN 1 ELSE IF down \in Texts(res) THEN -1 ELSE 0

NumBullish(patterns) ==
    Cardinality({i \in 1..Len(patterns) : CandleDelta(patterns[i]) > 0})
NumBearish(patterns) ==
    Cardinality({i \in 1..Len(patterns) : CandleDelta(patterns[i]) < 0})

\* C6: the multiplier is 1.3 from a volume ratio of 2.0 (only then is
\* volume_surge set), 1.15 from 1.5, 0.7 up to 0.5, else 1.0; the MA cross
\* (2), the Ichimoku cross (1.5) and the MACD cross (1.5) are multiplied by
\* it and no flat increment is: ratio 2.5 gives a golden cross 2.6, 1.0 gives
\* 2.0.
C6_VolumeMultiplier ==
    Returned =>
        LET st == locals.st
            vr == locals.r.vol_ratio
            mult == RefMultiplier(vr)
        IN  /\ locals.volume_multiplier = mult
            /\ ("volume_surge" \in locals.signal_flags)
                  = (notna(vr) /\ vr >= 200)
            /\ Delta(st, "vol", "ma") =
                  Fired(signals, "ma_golden", "ma_death") * 20 * mult
                  + Fired(signals, "above_ma20", "below_ma20") * 500
            /\ Delta(st, "ma", "ichimoku") =
                  Fired(signals, "ichi_golden", "ichi_death") * 15 * mult
                  + Fired(signals, "cloud_above", "cloud_below") * 500
            /\ Delta(st, "rsi", "macd") =
                  Fired(signals, "macd_golden", "macd_death") * 15 * mult
            /\ Delta(st, "ichimoku", "rsi") \in {0, -2000, 5000, 2000, 500, -500}
            /\ Delta(st, "macd", "bollinger") =
                  Fired(signals, "bb_lower", "bb_upper") * 1000
            /\ Delta(st, "bollinger", "week52") \in {0, -1000, 500}
            /\ Delta(st, "week52", "sr") = 0
            /\ Delta(st, "sr", "momentum") \in {0, -1000, -2000}
            /\ Delta(st, "momentum", "atr") = 0
            /\ Delta(st, "atr", "candle") =
                  1000 * (NumBullish(signals.candle_patterns)
                          - NumBearish(signals.candle_patterns))
            /\ (vr = 250 /\ "ma_golden" \in Texts(signals)
                  => Delta(st, "vol", "ma") - 500 * Fired(signals, "above_ma20",
                                                          "below_ma20") = 2600)
            /\ (vr = 100 /\ "ma_golden" \in Texts(signals)
                  => Delta(st, "vol", "ma") - 500 * Fired(signals, "above_ma20",
                                                          "below_ma20") = 2000)

\* ratio 2.5: a golden cross worth 2.6 next to flat increments left unscaled
C6_Witness ==
    /\ Returned /\ locals.r.vol_ratio = 250
    /\ "golden_cross" \in locals.signal_flags
    /\ Delta(locals.st, "vol", "ma") = 2600 + 500
    /\ Delta(locals.st, "ichimoku", "rsi") = 2000
    /\ Delta(locals.st, "atr", "candle") = 1000

\* the combinations the specification lists
ListedCombos(f) ==
    (IF {"rsi_oversold", "near_support", "volume_surge"} \subseteq f
        THEN 2000 ELSE 0)
    + (IF {"rsi_overbought", "near_resistance"} \subseteq f THEN -2000 ELSE 0)
    + (IF {"golden_cross", "above_cloud", "macd_positive"} \subseteq f
        THEN 1500 ELSE 0)
    + (IF {"strong_bitgak", "rsi_oversold"} \subseteq f THEN 2000 ELSE 0)
    + (IF {"bitgak_signal", "near_support"} \subseteq f THEN 1500 ELSE 0)

\* C7 as stated: the combination bonus is exactly the sum of the five listed
\* combinations whose flags hold, and nothing else changes the score there.
C7_ListedCombosOnly ==
    Returned =>
        /\ signals.combo_bonus = ListedCombos(locals.signal_flags)
        /\ locals.score = locals.st.candle.score + signals.combo_bonus

\* C7 amended: the bonus is the sum of +2 (rsi_oversold, near_support,
\* volume_surge), -2 (rsi_overbought, near_resistance), +1.5 (golden_cross,
\* above_cloud, macd_positive) and -1.5 (death_cross, below_cloud,
\* macd_negative), each on its own; strong_bitgak and bitgak_signal are never
\* set, so the two crowd-positioning combinations never contribute.
C7_CombosWithDecline ==
    Returned =>
        LET f == locals.signal_flags
        IN  /\ signals.combo_bonus =
                  ListedCombos(f)
                  + (IF {"death_cross", "below_cloud", "macd_negative"}
                          \subseteq f THEN -1500 ELSE 0)
            /\ locals.score = locals.st.candle.score + signals.combo_bonus
            /\ f \cap {"strong_bitgak", "bitgak_signal"} = {}

\* the top and the decline combination on the same call
C7_Witness ==
    /\ Returned
    /\ {"rsi_overbought", "near_resistance", "death_cross", "below_cloud",
        "macd_negative"} \subseteq locals.signal_flags
    /\ signals.combo_bonus = -3500

\* C9: the buy/sell tally counts a candle pattern as a buy signal when candle
\* scoring gives it +1, as a sell signal when it gives -1, and not at all
\* when it gives 0.
C9_TallyFollowsCandleScoring ==
    Returned =>
        /\ signals.buy_signals =
              BuyCount(locals.st.atr.sigs) + NumBullish(signals.candle_patterns)
        /\ signals.sell_signals =
              SellCount(locals.st.atr.sigs) + NumBearish(signals.candle_patterns)

\* C10: with MA5 and MA20 available, +0.5 and above_ma20 exactly when the
\* close is above MA20, -0.5 and below_ma20 exactly when it is below; the
\* check is independent of the cross, and the two crosses exclude each other.
C10_CloseVsMA20 ==
    (Returned /\ notna(df.MA5) /\ notna(df.MA20)) =>
        LET f == locals.signal_flags
            cross == IF "golden_cross" \in f THEN 20 * locals.volume_multiplier
                     ELSE IF "death_cross" \in f
                     THEN -(20 * locals.volume_multiplier) ELSE 0
        IN  /\ ("above_ma20" \in f) = (df.Close > df.MA20)
            /\ ("below_ma20" \in f) = (df.Close < df.MA20)
            /\ Delta(locals.st, "vol", "ma") - cross =
                  (IF df.Close > df.MA20 THEN 500
                   ELSE IF df.Close < df.MA20 THEN -500 ELSE 0)
            /\ ~({"golden_cross", "death_cross"} \subseteq f)

PriceFailed(answer) == answer.price.is_none \/ answer.price.len < 60

\* C4: whatever fails for a holding (no price series, a short one, no
\* fundamentals), analyze_portfolio returns one record per holding in
\* portfolio order; a failed holding carries the insufficient-data error, an
\* empty fundamentals map when fundamentals failed, and the default strategy,
\* and the holdings after it are still analyzed.
C4_BatchContinues ==
    /\ Len(results) = Len(provider)
    /\ Len(results) <= Len(all_holdings)
    /\ (hidx > Len(all_holdings) => Len(results) = Len(all_holdings))
    /\ \A i \in 1..Len(results) :
         /\ results[i].symbol = all_holdings[i].symbol
         /\ results[i].name = all_holdings[i].name
         /\ (PriceFailed(provider[i]) =>
               /\ HasError(results[i])
               /\ results[i].error = "insufficient_data"
               /\ DOMAIN results[i] \cap {"recommendation", "score", "signals",
                                          "indicators"} = {}
               /\ results[i].strategy =
                     [action |-> "HOLD", confidence |-> "MEDIUM",
                      entry_strategy |-> <<>>, exit_strategy |-> <<>>,
                      stop_loss |-> [present |-> FALSE], take_profit |-> <<>>,
                      position_size |-> "0%", reasoning |-> <<>>])
         /\ (~PriceFailed(provider[i]) =>
               ~HasError(results[i]) /\ "recommendation" \in DOMAIN results[i])
         /\ (provider[i].fundamentals = EmptyMap =>
               results[i].fundamentals = EmptyMap)

\* the first holding has a short series and no fundamentals, and the one
\* after it is analyzed to a BUY plan
C4_Witness ==
    /\ Len(all_holdings) >= 2 /\ Len(results) >= 2
    /\ provider[1].price.len = 59 /\ provider[1].fundamentals = EmptyMap
    /\ HasError(results[1]) /\ results[1].fundamentals = EmptyMap
    /\ results[1].strategy.action = "HOLD"
    /\ ~HasError(results[2]) /\ results[2].recommendation = "STRONG_BUY"
    /\ results[2].strategy.action = "BUY"

\* C11: analyze_signals never mutates the series it is given: after the
\* call the caller's frame holds the same bars and the same columns as
\* before.
C11_InputNotMutated == [][df' = df]_vars

\* C12: a second call of analyze_signals on the same series object returns
\* what the first call returned (signals in order, score, combo bonus,
\* counts, confidence, recommendation).
C12_SecondCallSame == pc = "again" => signals = locals.first

\* both calls analyzed a full series whose volume ratio is a rounding tie and
\* found a golden cross
C12_Witness ==
    /\ pc = "again" /\ locals.called
    /\ "recommendation" \in DOMAIN signals
    /\ Cardinality(VolumeRatio(locals.d)) = 2
    /\ "golden_cross" \in locals.signal_flags
    /\ df.cols # locals.d.cols

-----------------------------------------------------------------------------
(* Properties of generate_trading_strategy (strategy.py)                   *)

Generated == pc = "done" /\ plan # NoStrategy

AskedBuy ==
    /\ Get(signals, "recommendation", "HOLD") \in {"STRONG_BUY", "BUY"}
    /\ Get(signals, "current_price", 0) # 0
AskedSell ==
    /\ Get(signals, "recommendation", "HOLD") \in {"STRONG_SELL", "SELL"}
    /\ Get(signals, "current_price", 0) # 0
AskedHold ==
    /\ "recommendation" \in DOMAIN signals
    /\ signals.recommendation = "HOLD"

GradeIn == Get(Get(signals, "bitgak", EmptyMap), "grade", "NONE")
Sentiment == Get(market_indicators, "market_sentiment", "NEUTRAL")
WarningIn == Get(signals, "bitgak_warning", "None")

\* the three tranches of the score tier, as <<share, offset>> pairs
RefTranches ==
    IF signals.score >= 50 THEN << <<50, 0>>, <<30, -3>>, <<20, -5>> >>
    ELSE << <<40, 0>>, <<30, -5>>, <<30, -10>> >>

TierSize == IF signals.score >= 50 THEN "30%" ELSE "20%"

EntriesFollowTier ==
    /\ plan.action = "BUY"
    /\ Len(plan.entry_strategy) = (IF GradeIn = "NONE" THEN 3 ELSE 4)
    /\ \A i \in 1..3 :
          /\ plan.entry_strategy[i].share = RefTranches[i][1]
          /\ plan.entry_strategy[i].offset = RefTranches[i][2]
    /\ (GradeIn # "NONE" =>
          /\ plan.entry_strategy[4].watch = "bitgak_buy"
          /\ plan.entry_strategy[4].value =
                Get(signals.bitgak, "hvn_price", (signals.current_price * 95) \div 100))

\* C16 as stated: for a BUY or STRONG_BUY recommendation at a non-zero price
\* the action is BUY, the three tranches and the position size are those of
\* the score tier, and one crowd tranche is appended exactly when the grade
\* is not NONE.
C16_TierFixesPlanAndSize ==
    (Generated /\ AskedBuy) => EntriesFollowTier /\ plan.position_size = TierSize

\* C16 as amended: the tranches are those of the score tier and the position
\* size is the tier's unless extreme greed caps it at 10% or a chasing / far
\* warning halves it.
C16_TierFixesPlan ==
    (Generated /\ AskedBuy) =>
        /\ EntriesFollowTier
        /\ plan.position_size =
              IF Sentiment = "EXTREME_GREED" THEN "10%"
              ELSE IF WarningIn \in {"chasing", "far"}
                   THEN (IF signals.score >= 50 THEN "15%" ELSE "10%")
                   ELSE TierSize

\* a strong buy at score 5.0 with a crowd grade, under extreme greed
C16_Witness ==
    /\ Generated /\ AskedBuy /\ signals.score = 50
    /\ GradeIn = "BITGAK" /\ Len(plan.entry_strategy) = 4
    /\ Sentiment = "EXTREME_GREED" /\ plan.position_size = "10%"

TargetIn == Get(Get(signals, "fundamentals", EmptyMap), "target_price", 0)

\* C17: a BUY strategy has the ladder +10% / +20% / target (30/30/40)
\* exactly when a target price is present and is strictly more than 10%
\* above the current price, and resistance / resistance x 1.05 (50/50) in
\* every other case.
C17_LadderIffUpsideAbove10 ==
    (Generated /\ plan.action = "BUY") =>
        LET tp == plan.take_profit
            ladder == TargetIn # 0 /\ 10 * TargetIn > 11 * signals.current_price
        IN  IF ladder
            THEN /\ Len(tp) = 3
                 /\ <<tp[1].sell_ratio, tp[2].sell_ratio, tp[3].sell_ratio>>
                        = <<30, 30, 40>>
                 /\ <<tp[1].percentage, tp[2].percentage>> = <<100, 200>>
                 /\ tp[3].price = TargetIn
            ELSE /\ Len(tp) = 2
                 /\ <<tp[1].sell_ratio, tp[2].sell_ratio>> = <<50, 50>>

SupportIn ==
    Get(Get(signals, "support_resistance", EmptyMap), "support",
        (signals.current_price * 9) \div 10)

StopLossShape ==
    /\ (plan.stop_loss.present <=> plan.action = "BUY")
    /\ (plan.action = "BUY" =>
            plan.stop_loss.price \in RoundDiv(97 * SupportIn, 100))
    /\ (plan.action # "BUY" => plan.take_profit = <<>>)

\* C18 as stated: a stop-loss exists exactly for BUY, its price is 0.97 x
\* support, with support at or below the price it is strictly below the
\* price with a negative percentage; SELL and HOLD have no stop-loss and no
\* take-profit.
C18_StopLossStrictlyBelow ==
    Generated =>
        /\ StopLossShape
        /\ (plan.action = "BUY" /\ SupportIn <= signals.current_price =>
                /\ plan.stop_loss.price < signals.current_price
                /\ plan.stop_loss.percentage < 0)

\* C18 as amended: with support at or below the price the stop-loss price is
\* never above the price, and strictly below it when support is at least
\* 0.17; the percentage is negative.
C18_StopLossNotAbove ==
    Generated =>
        /\ StopLossShape
        /\ (plan.action = "BUY" /\ SupportIn <= signals.current_price =>
                /\ plan.stop_loss.price <= signals.current_price
                /\ (SupportIn >= 17 =>
                        plan.stop_loss.price < signals.current_price)
                /\ plan.stop_loss.percentage < 0)

\* a BUY at 0.12 on a support of 0.12: the stop-loss rounds to 0.12
C18_Witness ==
    /\ Generated /\ plan.action = "BUY"
    /\ signals.current_price = 12 /\ SupportIn = 12
    /\ plan.stop_loss.price = 12 /\ plan.stop_loss.percentage = -30

\* C19: for SELL or STRONG_SELL at a non-zero price the strategy is SELL
\* with the two exit tranches (half now, the rest at +3%), no entries, size
\* 0%, confidence HIGH exactly when score <= -5, the plunge rationale exactly
\* when the 1-month return is below -15%, and neither the market sentiment
\* nor a crowd warning changes any of it.
C19_SellPlan ==
    (Generated /\ AskedSell) =>
        LET return_1m ==
                Get(Get(signals, "momentum", EmptyMap), "return_1m", 0)
        IN  /\ plan.action = "SELL"
            /\ Len(plan.exit_strategy) = 2
            /\ plan.exit_strategy[1] = [share |-> 50, offset |-> 0]
            /\ plan.exit_strategy[2] = [share |-> 50, offset |-> 3]
            /\ plan.entry_strategy = <<>>
            /\ plan.position_size = "0%"
            /\ (plan.confidence = "HIGH" <=> signals.score <= -50)
            /\ plan.confidence \in {"HIGH", "MEDIUM"}
            /\ plan.reasoning =
                  (IF return_1m < -1500 THEN <<"sell_signal", "plunge">>
                                        ELSE <<"sell_signal">>)
            /\ ~plan.stop_loss.present /\ plan.take_profit = <<>>

\* a strong sell at score -5.0 after a plunge, under extreme fear and with a
\* chasing warning attached
C19_Witness ==
    /\ Generated /\ AskedSell /\ signals.score = -50
    /\ Get(Get(signals, "momentum", EmptyMap), "return_1m", 0) = -1501
    /\ Sentiment = "EXTREME_FEAR" /\ WarningIn = "chasing"
    /\ plan.confidence = "HIGH" /\ Len(plan.reasoning) = 2

HoldConditions ==
    /\ plan.action = "HOLD"
    /\ plan.confidence = "MEDIUM"
    /\ IF GradeIn # "NONE"
       THEN /\ Len(plan.entry_strategy) = 2
            /\ plan.entry_strategy[1].watch = "bitgak_wait"
            /\ plan.entry_strategy[2].watch = "csi_check"
            /\ plan.exit_strategy = <<>>
       ELSE /\ Len(plan.entry_strategy) = 2
            /\ plan.entry_strategy[1].watch = "support_holds"
            /\ plan.entry_strategy[2].watch = "rsi_below_30"
            /\ Len(plan.exit_strategy) = 2
            /\ plan.exit_strategy[1].watch = "resistance_fails"
            /\ plan.exit_strategy[2].watch = "rsi_above_70"
    /\ plan.reasoning = (IF GradeIn # "NONE"
                         THEN <<"no_direction", "bitgak_wait">>
                         ELSE <<"no_direction">>)

\* C20 as stated: for recommendation HOLD the strategy has the crowd watch
\* conditions exactly when the grade is not NONE and the generic support /
\* RSI entry and resistance / RSI exit conditions otherwise, with confidence
\* MEDIUM, whatever the sentiment and the warning.
C20_HoldConditions == (Generated /\ AskedHold) => HoldConditions

\* C20 as amended: the same for recommendation HOLD at a non-zero price.
C20_HoldConditionsAtPrice ==
    (Generated /\ AskedHold /\ Get(signals, "current_price", 0) # 0)
        => HoldConditions

\* a HOLD with a crowd grade, under extreme greed and with a warning
C20_Witness ==
    /\ Generated /\ AskedHold /\ Get(signals, "current_price", 0) # 0
    /\ GradeIn = "STRONG_BITGAK" /\ Sentiment = "EXTREME_GREED"
    /\ WarningIn = "chasing"
    /\ plan.entry_strategy[1].watch = "bitgak_wait"

-----------------------------------------------------------------------------
(* Properties of analyze_bitgak_signal (bitgak.py)                         *)

Graded == pc = "done" /\ "grade" \in DOMAIN bitgak /\ bitgak.grade # "None"

\* C13: the sub-score analyze_bitgak_signal returns on a series of at least
\* 60 bars lies between 0 and 3 inclusive.
C13_ScoreBetween0And3 == Graded => bitgak.score >= 0 /\ bitgak.score <= 30

\* the stress, in hundredths of a percent, as a comparison of integers
StressAtLeast(k) == (df.Close - df.VWAP_20) * 100 >= k * df.VWAP_20
StressAtMost(k) == (df.Close - df.VWAP_20) * 100 <= k * df.VWAP_20

RefStress ==
    IF df.VWAP_20 = NaN THEN 0
    ELSE IF StressAtLeast(-5) /\ StressAtMost(2) THEN 10
    ELSE IF ~StressAtLeast(-10) THEN 5
    ELSE IF ~StressAtMost(10) THEN -5
    ELSE 0

RefNode ==
    LET gap == IF df.Close >= df.hvn_price THEN df.Close - df.hvn_price
               ELSE df.hvn_price - df.Close
    IN  IF gap * 100 < 2 * df.Close THEN 10
        ELSE IF gap * 100 < 5 * df.Close THEN 5 ELSE 0

TouchDeclared ==
    \E i \in 1..Len(bitgak.signals) :
        bitgak.signals[i] \in {"falling_touch", "rising_touch"}

RsiBoosted ==
    \E i \in 1..Len(bitgak.signals) : bitgak.signals[i] = "rsi_oversold_boost"

\* the RSI the function reads: the RSI column of the frame, 50 without it
RsiRead35 ==
    IF "RSI" \in df.cols /\ df.gain + df.loss > 0
    THEN 100 * df.gain < 35 * (df.gain + df.loss)
    ELSE FALSE

RefWithin2(i) ==
    LET run == df.low_idx - df.high_idx
        at == df.high_price * run + (df.low_price - df.high_price) * (i - df.high_idx)
        gap == IF df.Close * run >= at THEN df.Close * run - at
               ELSE at - df.Close * run
        width == IF run >= 0 THEN run ELSE -run
    IN  gap * 100 < 2 * df.Close * width

\* C15: a touch is declared exactly when the close is within 2% of the value
\* the fitted line takes at the latest bar's position in the window's own
\* indexing (59), for every series length >= 60; at most one line is
\* fitted.
C15_TouchAtWindowPosition ==
    Graded =>
        /\ bitgak.bitgak_lines <= 1
        /\ (TouchDeclared <=>
               /\ df.has_high /\ df.has_low /\ df.high_idx # df.low_idx
               /\ RefWithin2(Lookback - 1))

-----------------------------------------------------------------------------
(* The overlays of generate_trading_strategy (strategy.py 144-164)         *)

BuyReturned == Generated /\ plan.action = "BUY"
Reasons == {plan.reasoning[i] : i \in 1..Len(plan.reasoning)}

\* C21 as stated: a BUY strategy under EXTREME_FEAR has confidence HIGH,
\* whatever the score tier and whatever warning the analysis carries.
C21_FearBuyIsHigh ==
    (BuyReturned /\ Sentiment = "EXTREME_FEAR") => plan.confidence = "HIGH"

\* C21 as amended: a BUY strategy under EXTREME_FEAR has confidence HIGH
\* whatever the score tier, unless the analysis carries a chasing or
\* far-from-value-area warning, in which case its confidence is LOW.
C21_FearBuyIsHighUnlessReduced ==
    (BuyReturned /\ Sentiment = "EXTREME_FEAR") =>
        plan.confidence = IF WarningIn \in {"chasing", "far"} THEN "LOW"
                                                               ELSE "HIGH"

\* a buy of the lower tier under extreme fear, with a warning that does not
\* reduce, returned with confidence HIGH
C21_Witness ==
    /\ BuyReturned /\ Sentiment = "EXTREME_FEAR"
    /\ signals.score = 20 /\ WarningIn = "capitulation"
    /\ plan.confidence = "HIGH" /\ "extreme_fear" \in Reasons

\* a position-size string as a number; 100 for a string that is no size
SizePercent(position_size) ==
    CASE position_size = "30%" -> 30
      [] position_size = "20%" -> 20
      [] position_size = "15%" -> 15
      [] position_size = "10%" -> 10
      [] OTHER -> 100

\* C22: a BUY strategy under EXTREME_GREED has confidence LOW and a position
\* size of at most 10%, whatever the tier and the warning; under every
\* sentiment a BUY position size is one of 30%, 20%, 15%, 10%.
C22_GreedBuyCapped ==
    BuyReturned =>
        /\ plan.position_size \in {"30%", "20%", "15%", "10%"}
        /\ SizePercent(plan.position_size) <= 30
        /\ (Sentiment = "EXTREME_GREED" =>
               /\ plan.confidence = "LOW"
               /\ SizePercent(plan.position_size) <= 10)

\* a strong buy of the upper tier with a chasing warning under extreme greed
C22_Witness ==
    /\ BuyReturned /\ Sentiment = "EXTREME_GREED"
    /\ signals.score = 50 /\ WarningIn = "chasing"
    /\ plan.position_size = "10%" /\ plan.confidence = "LOW"

\* the position size the strategy has when the analysis carries no warning
SizeUnwarned == IF Sentiment = "EXTREME_GREED" THEN 10
                ELSE SizePercent(TierSize)
WasHalved == 2 * SizePercent(plan.position_size) = SizeUnwarned

\* C23: when a warning is attached and the action is BUY, the warning is in
\* the rationale; a chasing or far-from-value-area warning makes the
\* returned position size half of the size without the warning; and the
\* reduction note is in the rationale exactly when that halving took place.
C23_WarningHalvesAndNotes ==
    (BuyReturned /\ WarningIn # "None") =>
        /\ WarningIn \in Reasons
        /\ (WarningIn \in {"chasing", "far"} => WasHalved)
        /\ ("reduced" \in Reasons <=> WasHalved)


-----------------------------------------------------------------------------
(* Leveraged-symbol resolution                                             *)

\* C24: the leveraged flag is true exactly when the upper-cased symbol is a
\* key of the table, the underlying is then the mapped value and otherwise
\* the symbol itself; is_leveraged(s) agrees with get_underlying(s) # s;
\* resolving an underlying again returns it unchanged; and the tables of
\* analyzer.py and yahoo_client.py give the same answer.
C24_LeveragedLookup ==
    pc \in {"resolved", "again"} =>
        LET key == Upper(locals.symbol)
            listed == key \in DOMAIN yahoo_LEVERAGE_MAP
        IN  /\ locals.is_leveraged = listed
            /\ locals.underlying =
                  (IF listed THEN yahoo_LEVERAGE_MAP[key] ELSE locals.symbol)
            /\ locals.yahoo_is_leveraged =
                  (locals.yahoo_underlying # locals.symbol)
            /\ locals.yahoo_underlying = locals.underlying
            /\ locals.yahoo_is_leveraged = locals.is_leveraged
            /\ (locals.symbol = "TQQQ" =>
                  locals.underlying = "QQQ" /\ locals.is_leveraged)
            /\ (locals.symbol = "AAPL" =>
                  locals.underlying = "AAPL" /\ ~locals.is_leveraged)
            /\ (pc = "again" =>
                  /\ locals.underlying = locals.first.underlying
                  /\ ~locals.is_leveraged)

\* a lower-case spelling of a listed symbol, resolved and resolved again
C24_Witness ==
    /\ pc = "again"
    /\ locals.first.symbol = "tqqq" /\ locals.first.is_leveraged
    /\ locals.symbol = "QQQ" /\ locals.underlying = "QQQ"

-----------------------------------------------------------------------------
(* The counts of analyze_signals against the list it returns               *)

\* C25: the reported buy_signals and sell_signals are the numbers of
\* bullish-tagged and bearish-tagged strings of the returned signals list,
\* also when the RSI >= 80 override fired.
C25_CountsMatchReturnedList ==
    (Returned /\ ~HasError(signals)) =>
        /\ signals.buy_signals = BuyCount(signals.signals)
        /\ signals.sell_signals = SellCount(signals.signals)

-----------------------------------------------------------------------------
(* The recommendation as a function of the rounded score                   *)

Rank(recommendation) ==
    CASE recommendation = "STRONG_SELL" -> 1
      [] recommendation = "SELL" -> 2
      [] recommendation = "HOLD" -> 3
      [] recommendation = "BUY" -> 4
      [] recommendation = "STRONG_BUY" -> 5

\* the scores, in tenths, the returned one is compared with
ComparedScores == -60 .. 60

\* some buy-side rule, some sell-side rule of the specification applies
RefBuySide(score, buy, sell) ==
    \/ score >= 40
    \/ score >= 20
    \/ score >= 15 /\ RefRatioGE(buy, buy + sell, 7)
RefSellSide(score, buy, sell) ==
    \/ score <= -40
    \/ score <= -20
    \/ score <= -15 /\ RefRatioGE(sell, buy + sell, 7)

\* C28: with the override not fired and the counts of the call held fixed,
\* a higher rounded score never yields a lower-ranked recommendation than
\* the one returned and a lower score never a higher-ranked one, and no
\* score satisfies a buy-side and a sell-side rule at once.
C28_MonotoneInScore ==
    (Returned /\ ~HasError(signals) /\ locals.rsi_override # "SELL") =>
        LET buy == signals.buy_signals
            sell == signals.sell_signals
        IN  \A x \in ComparedScores :
              /\ (x >= signals.score =>
                    Rank(Recommend(x, buy, sell)) >= Rank(signals.recommendation))
              /\ (x <= signals.score =>
                    Rank(Recommend(x, buy, sell)) <= Rank(signals.recommendation))
              /\ ~(RefBuySide(x, buy, sell) /\ RefSellSide(x, buy, sell))
              /\ (RefBuySide(x, buy, sell) => Rank(Recommend(x, buy, sell)) >= 4)
              /\ (RefSellSide(x, buy, sell) => Rank(Recommend(x, buy, sell)) <= 2)

\* a BUY returned at a score of 1.5 to 1.9 on the strength of the buy share
C28_Witness ==
    /\ Returned /\ ~HasError(signals) /\ locals.rsi_override # "SELL"
    /\ signals.score >= 15 /\ signals.score < 20
    /\ signals.recommendation = "BUY"

-----------------------------------------------------------------------------
(* The crowd-positioning analysis before and after the indicator library   *)

\* C26: analyze_bitgak_signal gives the same sub-score, grade and signal
\* list on a series whether or not analyze_signals has already computed the
\* indicators (RSI among them) on that same series object.
C26_SameBeforeAndAfterIndicators ==
    (pc = "again" /\ ~HasError(bitgak)) =>
        /\ bitgak.score = locals.first.score
        /\ bitgak.grade = locals.first.grade
        /\ bitgak.signals = locals.first.signals

-----------------------------------------------------------------------------
(* The take-profit ladder of a BUY strategy                                *)

ResistanceIn ==
    Get(Get(signals, "support_resistance", EmptyMap), "resistance",
        (signals.current_price * 11) \div 10)

\* C27: in every BUY strategy, with the resistance at or above the current
\* price, each take-profit tranche is priced at least as high as the one
\* before it.
C27_TakeProfitAscending ==
    (BuyReturned /\ ResistanceIn >= signals.current_price) =>
        \A i \in 1..(Len(plan.take_profit) - 1) :
            plan.take_profit[i + 1].price >= plan.take_profit[i].price

-----------------------------------------------------------------------------
(* The trade ledger                                                        *)

\* C29: after any sequence of add_trade and delete_trade the recorded trades
\* have pairwise distinct ids, so that delete_trade removes at most one
\* trade.
C29_DistinctTradeIds ==
    /\ \A i, j \in 1..Len(trades) : i # j => trades[i].id # trades[j].id
    /\ ("removed" \in DOMAIN locals => locals.removed <= 1)

-----------------------------------------------------------------------------
(* The stored portfolio                                                    *)

\* the segments of a stored portfolio; the flat list is the "us" segment
Segments(p) ==
    CASE p.kind = "dict" -> p.holdings
      [] p.kind = "list" -> [m \in {"us"} |-> p.list]
      [] OTHER -> EmptyMap

NoDuplicates(p) ==
    \A m \in DOMAIN Segments(p) :
        \A i, j \in 1..Len(Segments(p)[m]) :
            i # j => Upper(Segments(p)[m][i].symbol) # Upper(Segments(p)[m][j].symbol)

PresentBefore ==
    /\ locals.market \in DOMAIN Segments(locals.before)
    /\ \E i \in 1..Len(Segments(locals.before)[locals.market]) :
          Upper(Segments(locals.before)[locals.market][i].symbol)
              = Upper(locals.symbol)

UnknownMarket ==
    \/ locals.before.kind # "dict"
    \/ locals.market \notin DOMAIN locals.before.holdings

Refused == ~locals.ret /\ ~locals.saved /\ portfolio = locals.before

\* C30: from a portfolio without duplicates, after any sequence of
\* add_holding and remove_holding no market segment holds two holdings whose
\* symbols are equal ignoring case; add_holding of a symbol already in the
\* segment, and remove_holding of an absent symbol or on an unknown market,
\* return False and leave the stored portfolio as it was, nothing saved.
C30_NoDuplicateHoldings ==
    /\ NoDuplicates(portfolio)
    /\ ("op" \in DOMAIN locals =>
          /\ (locals.op = "add_holding" /\ PresentBefore => Refused)
          /\ (locals.op = "remove_holding" /\ (~PresentBefore \/ UnknownMarket)
                 => Refused))

\* add_holding("aapl") refused on a segment that holds AAPL, stored by an
\* earlier add_holding
C30_Witness ==
    /\ "op" \in DOMAIN locals /\ locals.op = "add_holding"
    /\ locals.symbol = "aapl" /\ locals.market = "kr"
    /\ locals.before.kind = "dict" /\ "kr" \in DOMAIN locals.before.holdings
    /\ Len(locals.before.holdings["kr"]) = 2
    /\ locals.before.holdings["kr"][2].symbol = "AAPL"
    /\ Refused

=============================================================================
